---- MODULE Spec2Model ----
(***************************************************************************)
(* A model of the lox bytecode toolchain: the lexer (scanner.rs), the      *)
(* bytecode chunk (chunk.rs), the single-pass compiler (compiler/mod.rs)   *)
(* and the stack virtual machine (vm.rs).                                  *)
(*                                                                         *)
(* Source text is a sequence of one-character strings.  Code offsets,      *)
(* constant indices and stack slots are 0-based as in the source; At and   *)
(* Put translate them to the 1-based sequences of TLA+.                    *)
(***************************************************************************)
EXTENDS Integers, Sequences, FiniteSets, TLC

\* ------------------------------------------------------------------------
\* Sequence helpers
\* ------------------------------------------------------------------------

At(s, i) == s[i + 1]

Put(s, i, x) == [s EXCEPT ![i + 1] = x]

Last(s) == s[Len(s)]

Front(s) == SubSeq(s, 1, Len(s) - 1)

\* ------------------------------------------------------------------------
\* scanner.rs
\* ------------------------------------------------------------------------

\* Option<char>::None
None == "<none>"

LowerAlpha ==
  {"a","b","c","d","e","f","g","h","i","j","k","l","m",
   "n","o","p","q","r","s","t","u","v","w","x","y","z"}

UpperAlpha ==
  {"A","B","C","D","E","F","G","H","I","J","K","L","M",
   "N","O","P","Q","R","S","T","U","V","W","X","Y","Z"}

is_alpha(c) == c \in LowerAlpha \/ c \in UpperAlpha \/ c = "_"

is_digit(c) == c \in {"0","1","2","3","4","5","6","7","8","9"}

\* Scanner::new: the iterator is at the start and one advance() has loaded
\* the first character into `current`.  pos is the 1-based index of
\* `current`; pos = Len(src) + 1 stands for an exhausted iterator.
ScannerNew(source) == [src |-> source, pos |-> 1, line |-> 1]

ScCurrent(sc) == IF sc.pos <= Len(sc.src) THEN sc.src[sc.pos] ELSE None

ScNext(sc) == IF sc.pos + 1 <= Len(sc.src) THEN sc.src[sc.pos + 1] ELSE None

\* Scanner::advance: an exhausted iterator keeps returning None.
ScAdvance(sc) ==
  IF sc.pos <= Len(sc.src) THEN [sc EXCEPT !.pos = @ + 1] ELSE sc

make_token(sc, tag, lexeme) == [tag |-> tag, lexeme |-> lexeme, line |-> sc.line]

RECURSIVE SkipLine(_)
\* while self.current.map_or(false, |c| c != '\n') { self.advance(); }
SkipLine(sc) ==
  IF ScCurrent(sc) # None /\ ScCurrent(sc) # "\n"
  THEN SkipLine(ScAdvance(sc))
  ELSE sc

RECURSIVE SkipWhitespace(_)
\* The "Skip whitespace and comments" loop of next_token.
SkipWhitespace(sc) ==
  LET c == ScCurrent(sc) IN
  IF c \in {" ", "\r", "\t"} THEN SkipWhitespace(ScAdvance(sc))
  ELSE IF c = "\n" THEN SkipWhitespace(ScAdvance([sc EXCEPT !.line = @ + 1]))
  ELSE IF c = "/" /\ ScNext(sc) = "/" THEN SkipWhitespace(SkipLine(sc))
  ELSE sc

RECURSIVE ScanString(_, _)
\* The body of a string literal, up to the closing quote or end of input.
ScanString(sc, s) ==
  LET c == ScCurrent(sc) IN
  IF c # None /\ c # "\""
  THEN ScanString(ScAdvance(IF c = "\n" THEN [sc EXCEPT !.line = @ + 1] ELSE sc),
                  Append(s, c))
  ELSE [sc |-> sc, s |-> s]

RECURSIVE ScanIdentifier(_, _)
ScanIdentifier(sc, s) ==
  LET c == ScCurrent(sc) IN
  IF c # None /\ (is_alpha(c) \/ is_digit(c))
  THEN ScanIdentifier(ScAdvance(sc), Append(s, c))
  ELSE [sc |-> sc, s |-> s]

RECURSIVE ScanDigits(_, _)
ScanDigits(sc, s) ==
  LET c == ScCurrent(sc) IN
  IF c # None /\ is_digit(c)
  THEN ScanDigits(ScAdvance(sc), Append(s, c))
  ELSE [sc |-> sc, s |-> s]

\* The keyword match of next_token.
KeywordTag(s) ==
  CASE s = <<"a","n","d">> -> "And"
    [] s = <<"c","l","a","s","s">> -> "Class"
    [] s = <<"e","l","s","e">> -> "Else"
    [] s = <<"f","a","l","s","e">> -> "False"
    [] s = <<"f","o","r">> -> "For"
    [] s = <<"f","u","n">> -> "Fun"
    [] s = <<"i","f">> -> "If"
    [] s = <<"n","i","l">> -> "Nil"
    [] s = <<"o","r">> -> "Or"
    [] s = <<"p","r","i","n","t">> -> "Print"
    [] s = <<"r","e","t","u","r","n">> -> "Return"
    [] s = <<"s","u","p","e","r">> -> "Super"
    [] s = <<"t","h","i","s">> -> "This"
    [] s = <<"t","r","u","e">> -> "True"
    [] s = <<"v","a","r">> -> "Var"
    [] s = <<"w","h","i","l","e">> -> "While"
    [] OTHER -> "Identifier"

\* The "Handle operators" match of next_token, for the one-character
\* operators; "" when the character starts no operator.
SingleCharTag(c) ==
  CASE c = "(" -> "LeftParen"
    [] c = ")" -> "RightParen"
    [] c = "{" -> "LeftBrace"
    [] c = "}" -> "RightBrace"
    [] c = ";" -> "Semicolon"
    [] c = "," -> "Comma"
    [] c = "." -> "Dot"
    [] c = "-" -> "Minus"
    [] c = "+" -> "Plus"
    [] c = "/" -> "Slash"
    [] c = "*" -> "Star"
    [] c = "!" -> "Bang"
    [] c = "=" -> "Equal"
    [] c = "<" -> "Less"
    [] c = ">" -> "Greater"
    [] OTHER -> ""

TwoCharTag(c) ==
  CASE c = "!" -> "BangEqual"
    [] c = "=" -> "EqualEqual"
    [] c = "<" -> "LessEqual"
    [] c = ">" -> "GreaterEqual"
    [] OTHER -> ""

\* next_token after its "Skip whitespace and comments" loop.
ScanToken(sc) ==
  LET c == ScCurrent(sc) IN
  IF c = None THEN [tok |-> make_token(sc, "Eof", <<>>), sc |-> sc]
  ELSE IF c = "\"" THEN
    LET r == ScanString(ScAdvance(sc), <<>>) IN
    IF ScCurrent(r.sc) = None
    THEN [tok |-> make_token(r.sc, "Error", <<"unterminated string">>), sc |-> r.sc]
    ELSE [tok |-> make_token(r.sc, "StringLiteral", r.s), sc |-> ScAdvance(r.sc)]
  ELSE IF is_alpha(c) THEN
    LET r == ScanIdentifier(sc, <<>>) IN
    [tok |-> make_token(r.sc, KeywordTag(r.s), r.s), sc |-> r.sc]
  ELSE IF is_digit(c) THEN
    LET r == ScanDigits(sc, <<>>) IN
    IF ScCurrent(r.sc) = "." /\ ScNext(r.sc) # None /\ is_digit(ScNext(r.sc))
    THEN LET f == ScanDigits(ScAdvance(r.sc), Append(r.s, ".")) IN
         [tok |-> make_token(f.sc, "Number", f.s), sc |-> f.sc]
    ELSE [tok |-> make_token(r.sc, "Number", r.s), sc |-> r.sc]
  ELSE IF TwoCharTag(c) # "" /\ ScNext(sc) = "=" THEN
    [tok |-> make_token(sc, TwoCharTag(c), <<c, "=">>), sc |-> ScAdvance(ScAdvance(sc))]
  ELSE IF SingleCharTag(c) # "" THEN
    [tok |-> make_token(sc, SingleCharTag(c), <<c>>), sc |-> ScAdvance(sc)]
  ELSE
    \* An unrecognized character: advance() in the match arm, and the common
    \* advance() after the match.
    [tok |-> make_token(sc, "Error", <<"unexpected character ", c>>),
     sc  |-> ScAdvance(ScAdvance(sc))]

\* A next_token that starts over at the first character once it has
\* returned the end-of-input token.
next_token_restarting(sc) ==
  IF ScanToken(SkipWhitespace(sc)).tok.tag = "Eof"
  THEN [tok |-> ScanToken(SkipWhitespace(sc)).tok, sc |-> [sc EXCEPT !.pos = 1]]
  ELSE ScanToken(SkipWhitespace(sc))

\* Scanner::next_token: the token and the scanner after it.
next_token(sc) == ScanToken(SkipWhitespace(sc))

\* ------------------------------------------------------------------------
\* value.rs, object.rs
\* ------------------------------------------------------------------------

Abs(n) == IF n < 0 THEN -n ELSE n

Sign(n) == IF n < 0 THEN -1 ELSE IF n > 0 THEN 1 ELSE 0

RECURSIVE Gcd(_, _)
Gcd(a, b) == IF b = 0 THEN a ELSE Gcd(b, a % b)

\* An f64 is modelled by a fraction in lowest terms with den >= 0:
\* den = 0 stands for the non-finite values, num = 1 for +inf, -1 for -inf
\* and 0 for NaN.  The sign of zero and rounding are not modelled.
F64(n, d) ==
  IF d = 0 THEN [num |-> Sign(n), den |-> 0]
  ELSE LET g == Gcd(Abs(n), Abs(d)) IN
       [num |-> (Sign(d) * n) \div g, den |-> Abs(d) \div g]

F64IsNaN(x) == x.den = 0 /\ x.num = 0

F64Neg(x) == [num |-> -x.num, den |-> x.den]

F64Add(a, b) ==
  IF a.den = 0 /\ b.den = 0
  THEN (IF a.num = b.num THEN a ELSE F64(0, 0))
  ELSE IF a.den = 0 THEN a
  ELSE IF b.den = 0 THEN b
  ELSE F64(a.num * b.den + b.num * a.den, a.den * b.den)

F64Sub(a, b) == F64Add(a, F64Neg(b))

F64Mul(a, b) == F64(a.num * b.num, a.den * b.den)

F64Div(a, b) ==
  LET s == IF b.num < 0 THEN -1 ELSE 1 IN
  F64(s * a.num * b.den, a.den * Abs(b.num))

F64Lt(a, b) ==
  IF F64IsNaN(a) \/ F64IsNaN(b) THEN FALSE
  ELSE IF a.den = 0 \/ b.den = 0
  THEN a # b /\ ((a.den = 0 /\ a.num = -1) \/ (b.den = 0 /\ b.num = 1))
  ELSE a.num * b.den < b.num * a.den

F64Gt(a, b) == F64Lt(b, a)

F64Eq(a, b) == ~F64IsNaN(a) /\ ~F64IsNaN(b) /\ a = b

\* enum Value { Bool(bool), Nil, Number(f64), Obj(Rc<Obj>) }; the only
\* object payload is ObjValue::String.
BoolV(b) == [tag |-> "Bool", b |-> b]

NilV == [tag |-> "Nil"]

NumberV(x) == [tag |-> "Number", x |-> x]

\* Value::new_string
new_string(s) == [tag |-> "Obj", s |-> s]

\* Value::is_number
is_number(v) == v.tag = "Number"

\* Value::is_string (Obj::is_string is true of every object)
is_string(v) == v.tag = "Obj"

\* Value::is_falsey
is_falsey(v) ==
  BoolV(CASE v.tag = "Bool" -> ~v.b
          [] v.tag = "Nil" -> TRUE
          [] OTHER -> FALSE)

\* An equality that compares the kinds only.
ValueEqKind(a, b) == a.tag = b.tag

\* #[derive(PartialEq)] on Value, with Obj::eq comparing the payloads.
ValueEq(a, b) ==
  CASE a.tag # b.tag -> FALSE
    [] a.tag = "Bool" -> a.b = b.b
    [] a.tag = "Nil" -> TRUE
    [] a.tag = "Number" -> F64Eq(a.x, b.x)
    [] OTHER -> a.s = b.s

\* Value::clone: the copy has the content of the original.
ValueClone(v) ==
  CASE v.tag = "Bool" -> BoolV(v.b)
    [] v.tag = "Nil" -> NilV
    [] v.tag = "Number" -> NumberV(v.x)
    [] OTHER -> new_string(v.s)

\* ------------------------------------------------------------------------
\* op.rs: the opcode bytes, in the order of the disassembler's match.
\* ------------------------------------------------------------------------

OP_CONSTANT == 0
OP_NIL == 1
OP_TRUE == 2
OP_FALSE == 3
OP_POP == 4
OP_GET_LOCAL == 5
OP_SET_LOCAL == 6
OP_GET_GLOBAL == 7
OP_DEFINE_GLOBAL == 8
OP_SET_GLOBAL == 9
OP_EQUAL == 10
OP_GREATER == 11
OP_LESS == 12
OP_ADD == 13
OP_SUBTRACT == 14
OP_MULTIPLY == 15
OP_DIVIDE == 16
OP_NOT == 17
OP_NEGATE == 18
OP_PRINT == 19
OP_JUMP == 20
OP_JUMP_IF_FALSE == 21
OP_RETURN == 22

\* ------------------------------------------------------------------------
\* chunk.rs
\* ------------------------------------------------------------------------

MAX_CONSTANTS == 255

\* std::u16::MAX in patch_jump
MAX_JUMP == 65535

\* Chunk::new
ChunkNew == [code |-> <<>>, constants |-> <<>>, lines |-> <<>>]

\* An add_constant without the limit: the value is always pushed and the
\* index is the new length less one, in a byte.
add_constant_unbounded(c, value) ==
  [chunk |-> [c EXCEPT !.constants = Append(@, value)],
   ok |-> TRUE, index |-> (Len(c.constants) + 1 - 1) % 256, message |-> ""]

\* Chunk::add_constant: Ok(index) or Err(message); ok tells which.
add_constant(c, value) ==
  IF Len(c.constants) < MAX_CONSTANTS
  THEN [chunk |-> [c EXCEPT !.constants = Append(@, value)],
        ok |-> TRUE, index |-> ((Len(c.constants) + 1) % 256) - 1, message |-> ""]
  ELSE [chunk |-> c, ok |-> FALSE, index |-> 0,
        message |-> "Too many constants in one chunk."]

\* An emit that pushes the byte and no line.
emit_without_line(c, byte, line) == [c EXCEPT !.code = Append(@, byte)]

\* Chunk::emit
emit(c, byte, line) ==
  [c EXCEPT !.code = Append(@, byte), !.lines = Append(@, line)]

\* Chunk::emit_constant
emit_constant(c, value, line) ==
  LET r == add_constant(c, value) IN
  IF r.ok
  THEN [r EXCEPT !.chunk = emit(emit(r.chunk, OP_CONSTANT, line), r.index, line)]
  ELSE r

\* Chunk::emit_jump: the chunk and the offset of the placeholder.
emit_jump(c, instruction, line) ==
  LET d == emit(emit(emit(c, instruction, line), 255, line), 255, line) IN
  [chunk |-> d, offset |-> Len(d.code) - 2]

\* A patch_jump that writes the low byte of the distance first.
patch_jump_low_first(c, offset) ==
  LET jump == Len(c.code) - offset - 2 IN
  IF jump > MAX_JUMP
  THEN [chunk |-> c, ok |-> FALSE, message |-> "Too much code to jump over."]
  ELSE [chunk |-> [c EXCEPT !.code =
                     Put(Put(@, offset, jump % 256), offset + 1, (jump \div 256) % 256)],
        ok |-> TRUE, message |-> ""]

\* Chunk::patch_jump
patch_jump(c, offset) ==
  LET jump == Len(c.code) - offset - 2 IN
  IF jump > MAX_JUMP
  THEN [chunk |-> c, ok |-> FALSE, message |-> "Too much code to jump over."]
  ELSE [chunk |-> [c EXCEPT !.code =
                     Put(Put(@, offset, (jump \div 256) % 256), offset + 1, jump % 256)],
        ok |-> TRUE, message |-> ""]

\* Chunk::disassemble_instruction with simple_instruction, byte_instruction,
\* jump_instruction (called with sign = 1) and constant_instruction: the
\* offset of the next instruction, and whether the call panics.  An index
\* past the end of code, lines or constants panics in every build; the
\* subtraction offset + 3 - jump panics on underflow when the build checks
\* overflow (checked) and wraps otherwise, where the result is only printed.
disassemble_instruction(c, offset, checked) ==
  IF offset >= Len(c.lines) \/ offset >= Len(c.code)
  THEN [next |-> offset, panic |-> TRUE]
  ELSE
    LET op == At(c.code, offset) IN
    IF op \in {OP_CONSTANT, OP_GET_GLOBAL, OP_DEFINE_GLOBAL, OP_SET_GLOBAL}
    THEN [next |-> offset + 2,
          panic |-> offset + 1 >= Len(c.code)
                    \/ At(c.code, offset + 1) >= Len(c.constants)]
    ELSE IF op \in {OP_GET_LOCAL, OP_SET_LOCAL}
    THEN [next |-> offset + 2, panic |-> offset + 1 >= Len(c.code)]
    ELSE IF op \in {OP_JUMP, OP_JUMP_IF_FALSE}
    THEN [next |-> offset + 3,
          panic |-> offset + 2 >= Len(c.code)
                    \/ (checked /\ At(c.code, offset + 1) * 256 + At(c.code, offset + 2)
                                     > offset + 3)]
    ELSE [next |-> offset + 1, panic |-> FALSE]

\* Chunk::jump_instruction: the target it prints for the jump at offset.
\* With sign < 0 the distance is added, else it is subtracted; a
\* subtraction below zero panics when the build checks overflow and wraps
\* to 2^64 - below otherwise (wrapped, with below kept in target).
jump_instruction(c, sign, offset, overflow_checks) ==
  LET jump == At(c.code, offset + 1) * 256 + At(c.code, offset + 2) IN
  IF sign < 0
  THEN [target |-> offset + 3 + jump, wrapped |-> FALSE, panic |-> FALSE,
        next |-> offset + 3]
  ELSE IF jump <= offset + 3
  THEN [target |-> offset + 3 - jump, wrapped |-> FALSE, panic |-> FALSE,
        next |-> offset + 3]
  ELSE [target |-> jump - (offset + 3), wrapped |-> TRUE, panic |-> overflow_checks,
        next |-> offset + 3]

RECURSIVE DisassembleSteps(_, _, _, _)
\* At most k iterations of the loop of Chunk::disassemble: the offset
\* reached and whether one of them panics.
DisassembleSteps(c, offset, checked, k) ==
  IF k = 0 \/ offset >= Len(c.code) THEN [next |-> offset, panic |-> FALSE]
  ELSE LET r == disassemble_instruction(c, offset, checked) IN
       IF r.panic THEN [next |-> offset, panic |-> TRUE]
       ELSE DisassembleSteps(c, r.next, checked, k - 1)

RECURSIVE DisassembleFrom(_, _, _)
\* The loop of Chunk::disassemble: TRUE when the walk panics.  The
\* iterations are taken sixteen at a time, which keeps the evaluation of a
\* chunk of several hundred instructions shallow.
DisassembleFrom(c, offset, checked) ==
  IF offset < Len(c.code)
  THEN LET b == DisassembleSteps(c, offset, checked, 16) IN
       b.panic \/ DisassembleFrom(c, b.next, checked)
  ELSE FALSE

RECURSIVE OpcodesFrom(_, _)
\* The opcodes the walk of Chunk::disassemble visits from offset on.
OpcodesFrom(c, offset) ==
  IF offset < Len(c.code) /\ ~disassemble_instruction(c, offset, FALSE).panic
  THEN <<At(c.code, offset)>>
       \o OpcodesFrom(c, disassemble_instruction(c, offset, FALSE).next)
  ELSE <<>>

\* Chunk::disassemble: TRUE when it panics.
disassemble(c, checked) == DisassembleFrom(c, 0, checked)

\* ------------------------------------------------------------------------
\* compiler/mod.rs, compiler/error.rs, compiler/locals.rs
\* ------------------------------------------------------------------------

\* enum Precedence, in declaration order (derive(PartialOrd)).
Base == 0
Assignment == 1
Equality == 2
Comparison == 3
Term == 4
Factor == 5
Unary == 6

\* A table that puts the four arithmetic operators on one level.
precedence_of_flat(token) ==
  CASE token.tag \in {"Minus", "Plus", "Slash", "Star"} -> Term
    [] token.tag \in {"BangEqual", "EqualEqual"} -> Equality
    [] token.tag \in {"Greater", "GreaterEqual", "Less", "LessEqual"} -> Comparison
    [] OTHER -> Base

\* precedence_of
precedence_of(token) ==
  CASE token.tag \in {"Minus", "Plus"} -> Term
    [] token.tag \in {"Slash", "Star"} -> Factor
    [] token.tag \in {"BangEqual", "EqualEqual"} -> Equality
    [] token.tag \in {"Greater", "GreaterEqual", "Less", "LessEqual"} -> Comparison
    [] OTHER -> Base

MAX_LOCALS == 255

\* A local that counts as initialized from its declaration on.
LocalNewInitialized(name) == [name |-> name, depth |-> 0]

\* Local::new
LocalNew(name) == [name |-> name, depth |-> -1]

\* Parser::new.  The model keeps the chunk being written in the parser
\* record (the source passes it beside the parser to every method); err is
\* the pending ParseError of a method that returned Err (<<>> for Ok) and
\* ret the value of a method that returns one.
ParserNew(source, chunk) ==
  LET token == [tag |-> "Eof", lexeme |-> <<>>, line |-> 0] IN
  [scanner |-> ScannerNew(source), current |-> token, previous |-> token,
   locals |-> <<>>, scope_depth |-> 0, chunk |-> chunk, err |-> <<>>, ret |-> 0]

\* parse_error
parse_error(p, token, message) ==
  [p EXCEPT !.err = <<[token |-> token, message |-> message]>>]

Failed(p) == p.err # <<>>

\* impl Display for ParseError: the text is kept in its three parts.
ErrorDisplay(e) ==
  [line |-> e.token.line,
   at |-> CASE e.token.tag = "Eof" -> <<" at end">>
            [] e.token.tag = "Error" -> <<>>
            [] OTHER -> <<" at '">> \o e.token.lexeme \o <<"'">>,
   message |-> e.message]

EmitP(p, byte, line) == [p EXCEPT !.chunk = emit(@, byte, line)]

\* The `?` of the source: K goes on from an Ok, an Err is returned as it is.
Try(a, K(_)) == IF Failed(a) THEN a ELSE K(a)

\* `if self.matches(..)? { Y } else { N }`
IfMatch(m, Y(_), N(_)) == IF Failed(m) THEN m ELSE IF m.ret THEN Y(m) ELSE N(m)

\* Parser::begin_scope
begin_scope(p) == [p EXCEPT !.scope_depth = @ + 1]

RECURSIVE EndScopeSteps(_, _)
\* At most k iterations of the loop of end_scope.
EndScopeSteps(p, k) ==
  IF k > 0 /\ Len(p.locals) > 0 /\ Last(p.locals).depth > p.scope_depth
  THEN EndScopeSteps([EmitP(p, OP_POP, p.previous.line) EXCEPT !.locals = Front(@)],
                     k - 1)
  ELSE p

RECURSIVE EndScopeLoop(_)
\* The loop of end_scope, its iterations taken sixteen at a time.
EndScopeLoop(p) ==
  IF Len(p.locals) > 0 /\ Last(p.locals).depth > p.scope_depth
  THEN EndScopeLoop(EndScopeSteps(p, 16))
  ELSE p

\* An end_scope that discards one local at most.
end_scope_one_pop(p) == EndScopeSteps([p EXCEPT !.scope_depth = @ - 1], 1)

\* Parser::end_scope
end_scope(p) == EndScopeLoop([p EXCEPT !.scope_depth = @ - 1])

\* The rest of Parser::advance once the scanner has returned r.
Advanced(p, r) ==
  IF r.tok.tag = "Error"
  THEN parse_error([p EXCEPT !.scanner = r.sc], r.tok, "error advancing")
  ELSE [p EXCEPT !.scanner = r.sc, !.previous = p.current, !.current = r.tok]

\* An advance that passes over an error token without a word and takes the
\* token after it.
advance_over_errors(p) ==
  IF next_token(p.scanner).tok.tag = "Error"
  THEN Advanced([p EXCEPT !.scanner = next_token(p.scanner).sc],
                next_token(next_token(p.scanner).sc))
  ELSE Advanced(p, next_token(p.scanner))

\* Parser::advance: on an error token `current` is left as it was.
advance(p) == Advanced(p, next_token(p.scanner))

\* Parser::check
check(p, tag) == p.current.tag = tag

\* Parser::matches: ret is the bool of Ok(bool).
matches(p, tag) ==
  IF ~check(p, tag) THEN [p EXCEPT !.ret = FALSE]
  ELSE [advance(p) EXCEPT !.ret = TRUE]

\* Parser::consume
consume(p, tag, msg) ==
  IF p.current.tag = tag THEN advance(p) ELSE parse_error(p, p.current, msg)

\* identifier_constant: ret is the index.
identifier_constant(p, token) ==
  LET r == add_constant(p.chunk, new_string(token.lexeme)) IN
  IF r.ok THEN [p EXCEPT !.chunk = r.chunk, !.ret = r.index]
  ELSE parse_error(p, token, r.message)

RECURSIVE ResolveSkip(_, _, _, _)
\* At most k iterations of the loop of resolve_local that find another
\* name, from index i downwards: the index the loop has reached.
ResolveSkip(p, name, i, k) ==
  IF k = 0 \/ i < 0 \/ At(p.locals, i).name.lexeme = name.lexeme THEN i
  ELSE ResolveSkip(p, name, i - 1, k - 1)

RECURSIVE ResolveFrom(_, _, _)
\* The loop of resolve_local, from index i (0-based) downwards: ret is the
\* slot, or -1 for Ok(None).  The iterations that find another name are
\* taken sixteen at a time.
ResolveFrom(p, name, i) ==
  IF i < 0 THEN [p EXCEPT !.ret = -1]
  ELSE IF At(p.locals, i).name.lexeme = name.lexeme
  THEN (IF At(p.locals, i).depth = -1
        THEN parse_error(p, name, "Cannot read local variable in its own initializer.")
        ELSE [p EXCEPT !.ret = i % 256])
  ELSE ResolveFrom(p, name, ResolveSkip(p, name, i - 1, 16))

\* A resolution that finds no local, so that every name is a global.
resolve_local_none(p, name) == [p EXCEPT !.ret = -1]

\* Parser::resolve_local
resolve_local(p, name) == ResolveFrom(p, name, Len(p.locals) - 1)

RECURSIVE AddLocalSkip(_, _, _, _)
\* At most k iterations of the loop of add_local that neither break nor
\* find the name, from index i downwards: the index the loop has reached.
AddLocalSkip(p, name, i, k) ==
  IF k = 0 \/ i < 0
     \/ (At(p.locals, i).depth = -1 /\ At(p.locals, i).depth < p.scope_depth)
     \/ name.lexeme = At(p.locals, i).name.lexeme
  THEN i
  ELSE AddLocalSkip(p, name, i - 1, k - 1)

RECURSIVE AddLocalScan(_, _, _)
\* The loop of add_local over the locals in reverse: TRUE when it reports
\* "already declared".  The iterations that go on to the next local are
\* taken sixteen at a time.
AddLocalScan(p, name, i) ==
  IF i < 0 THEN FALSE
  ELSE IF At(p.locals, i).depth = -1 /\ At(p.locals, i).depth < p.scope_depth
  THEN FALSE
  ELSE IF name.lexeme = At(p.locals, i).name.lexeme THEN TRUE
  ELSE AddLocalScan(p, name, AddLocalSkip(p, name, i - 1, 16))

\* An add_local without the limit on the number of locals.
add_local_unbounded(p, name) ==
  IF AddLocalScan(p, name, Len(p.locals) - 1)
  THEN parse_error(p, name, "Variable with this name already declared in this scope.")
  ELSE [p EXCEPT !.locals = Append(@, LocalNew(name))]

\* Parser::add_local
add_local(p, name) ==
  IF Len(p.locals) >= MAX_LOCALS
  THEN parse_error(p, name, "Exceeded maximum number of local variables.")
  ELSE IF AddLocalScan(p, name, Len(p.locals) - 1)
  THEN parse_error(p, name, "Variable with this name already declared in this scope.")
  ELSE [p EXCEPT !.locals = Append(@, LocalNew(name))]

\* Parser::declare_variable
declare_variable(p) ==
  IF p.scope_depth > 0 THEN add_local(p, p.previous) ELSE p

\* Parser::mark_initialized
mark_initialized(p) ==
  [p EXCEPT !.locals = Put(@, Len(@) - 1, [Last(@) EXCEPT !.depth = p.scope_depth])]

\* A define_variable that defines every variable as a global, whatever the
\* scope depth.
define_variable_as_global(p, line, global) ==
  EmitP(EmitP(p, OP_DEFINE_GLOBAL, line), global, line)

\* Parser::define_variable
define_variable(p, line, global) ==
  IF p.scope_depth = 0
  THEN EmitP(EmitP(p, OP_DEFINE_GLOBAL, line), global, line)
  ELSE IF p.scope_depth > 0 THEN mark_initialized(p)
  ELSE p

\* Parser::parse_variable: ret is the constant index (0 for a local).
parse_variable(p, error_message) ==
  Try(consume(p, "Identifier", error_message), LAMBDA a :
  Try(declare_variable(a), LAMBDA b :
    IF b.scope_depth > 0 THEN [b EXCEPT !.ret = 0]
    ELSE identifier_constant(b, b.previous)))

RECURSIVE DigitsValue(_, _)
\* The integer a digit string denotes, acc being the value of the digits
\* already read.
DigitsValue(s, acc) ==
  IF s = <<>> THEN acc
  ELSE DigitsValue(Tail(s),
         10 * acc + (CHOOSE d \in 0..9 :
                       Head(s) = <<"0","1","2","3","4","5","6","7","8","9">>[d + 1]))

RECURSIVE Pow10(_)
Pow10(k) == IF k = 0 THEN 1 ELSE 10 * Pow10(k - 1)

\* str::parse::<f64> on a Number lexeme (digits, or digits '.' digits).
ParseNumber(lexeme) ==
  LET dots == {i \in 1..Len(lexeme) : lexeme[i] = "."} IN
  IF dots = {} THEN F64(DigitsValue(lexeme, 0), 1)
  ELSE LET d == CHOOSE i \in dots : TRUE
           frac == SubSeq(lexeme, d + 1, Len(lexeme))
       IN F64(DigitsValue(SubSeq(lexeme, 1, d - 1), 0) * Pow10(Len(frac))
                + DigitsValue(frac, 0),
              Pow10(Len(frac)))

\* chunk.emit_constant(..).or_else(|e| parse_error(&self.previous, &e))?
EmitConstantP(p, value) ==
  LET r == emit_constant(p.chunk, value, p.previous.line) IN
  IF r.ok THEN [p EXCEPT !.chunk = r.chunk]
  ELSE parse_error(p, p.previous, r.message)

RECURSIVE parse(_, _)
RECURSIVE ParseInfixLoop(_, _)
RECURSIVE prefix_rule(_, _)
RECURSIVE infix_rule(_)
RECURSIVE named_variable(_, _, _)
RECURSIVE declaration(_)
RECURSIVE statement(_)
RECURSIVE block(_)
RECURSIVE if_statement(_)

\* Parser::expression
expression(p) == parse(p, Assignment)

\* Parser::prefix_rule
prefix_rule(p, can_assign) ==
  LET tag == p.previous.tag IN
  CASE tag = "False" -> EmitP(p, OP_FALSE, p.previous.line)
    [] tag = "Nil" -> EmitP(p, OP_NIL, p.previous.line)
    [] tag = "True" -> EmitP(p, OP_TRUE, p.previous.line)
    [] tag = "Identifier" -> named_variable(p, p.previous, can_assign)
    [] tag = "StringLiteral" -> EmitConstantP(p, new_string(p.previous.lexeme))
    [] tag = "Number" -> EmitConstantP(p, NumberV(ParseNumber(p.previous.lexeme)))
    [] tag = "LeftParen" ->
         Try(parse(p, Assignment), LAMBDA a :
           consume(a, "RightParen", "Expect ')' after expression."))
    [] tag = "Minus" ->
         Try(parse(p, Factor), LAMBDA a : EmitP(a, OP_NEGATE, a.previous.line))
    [] tag = "Bang" ->
         Try(parse(p, Factor), LAMBDA a : EmitP(a, OP_NOT, a.previous.line))
    [] OTHER -> parse_error(p, p.previous, "unexpected token")

\* One arm of infix_rule: the right operand at `precedence`, then the
\* instructions ops with the operator's line.
InfixArm(p, precedence, ops) ==
  Try(parse(p, precedence), LAMBDA a :
    IF Len(ops) = 1 THEN EmitP(a, ops[1], p.previous.line)
    ELSE EmitP(EmitP(a, ops[1], p.previous.line), ops[2], p.previous.line))

\* Parser::infix_rule
infix_rule(p) ==
  LET tag == p.previous.tag IN
  CASE tag = "BangEqual" -> InfixArm(p, Equality, <<OP_EQUAL, OP_NOT>>)
    [] tag = "Equal" -> InfixArm(p, Equality, <<OP_EQUAL>>)
    [] tag = "EqualEqual" -> InfixArm(p, Equality, <<OP_EQUAL>>)
    [] tag = "Greater" -> InfixArm(p, Comparison, <<OP_GREATER>>)
    [] tag = "GreaterEqual" -> InfixArm(p, Comparison, <<OP_LESS, OP_NOT>>)
    [] tag = "Less" -> InfixArm(p, Comparison, <<OP_LESS>>)
    [] tag = "LessEqual" -> InfixArm(p, Comparison, <<OP_GREATER, OP_NOT>>)
    [] tag = "Plus" -> InfixArm(p, Factor, <<OP_ADD>>)
    [] tag = "Minus" -> InfixArm(p, Factor, <<OP_SUBTRACT>>)
    [] tag = "Star" -> InfixArm(p, Unary, <<OP_MULTIPLY>>)
    [] tag = "Slash" -> InfixArm(p, Unary, <<OP_DIVIDE>>)
    [] OTHER -> parse_error(p, p.previous, "expected operator")

\* The while loop of Parser::parse.
ParseInfixLoop(p, precedence) ==
  IF precedence <= precedence_of(p.current)
  THEN Try(advance(p), LAMBDA a :
       Try(infix_rule(a), LAMBDA b : ParseInfixLoop(b, precedence)))
  ELSE p

\* A parse that leaves an `=` after the expression to its caller.
parse_any_target(p, precedence) ==
  Try(advance(p), LAMBDA a :
  Try(prefix_rule(a, precedence <= Assignment), LAMBDA b :
    ParseInfixLoop(b, precedence)))

\* Parser::parse
parse(p, precedence) ==
  Try(advance(p), LAMBDA a :
  Try(prefix_rule(a, precedence <= Assignment), LAMBDA b :
  Try(ParseInfixLoop(b, precedence), LAMBDA c :
    IF precedence <= Assignment
    THEN IfMatch(matches(c, "Equal"),
                 LAMBDA m : parse_error(m, m.previous, "Invalid assignment target."),
                 LAMBDA m : m)
    ELSE c)))

\* The second half of named_variable, once the name is resolved to arg.
NamedVariableEmit(p, token, can_assign, arg, get_op, set_op) ==
  IF can_assign
  THEN IfMatch(matches(p, "Equal"),
               LAMBDA m : Try(expression(m), LAMBDA e :
                 EmitP(EmitP(e, set_op, token.line), arg, token.line)),
               LAMBDA m : EmitP(EmitP(m, get_op, token.line), arg, token.line))
  ELSE EmitP(EmitP(p, get_op, token.line), arg, token.line)

\* Parser::named_variable
named_variable(p, token, can_assign) ==
  Try(resolve_local(p, token), LAMBDA r :
    IF r.ret # -1
    THEN NamedVariableEmit(r, token, can_assign, r.ret, OP_GET_LOCAL, OP_SET_LOCAL)
    ELSE Try(identifier_constant(r, token), LAMBDA k :
           NamedVariableEmit(k, token, can_assign, k.ret, OP_GET_GLOBAL, OP_SET_GLOBAL)))

\* Parser::var_declaration
var_declaration(p) ==
  Try(parse_variable(p, "Expected variable name"), LAMBDA v :
  Try(IfMatch(matches(v, "Equal"),
              LAMBDA m : expression(m),
              LAMBDA m : EmitP(m, OP_NIL, v.previous.line)), LAMBDA e :
  Try(consume(e, "Semicolon", "Expected ';' after variable declaration."), LAMBDA s :
    define_variable(s, v.previous.line, v.ret))))

\* Parser::declaration
declaration(p) ==
  IfMatch(matches(p, "Var"), LAMBDA m : var_declaration(m), LAMBDA m : statement(m))

\* Parser::print_statement
print_statement(p) ==
  Try(expression(p), LAMBDA e :
  Try(consume(e, "Semicolon", "Expect ';' after value."), LAMBDA s :
    EmitP(s, OP_PRINT, p.previous.line)))

\* Parser::expression_statement
expression_statement(p) ==
  Try(expression(p), LAMBDA e :
  Try(consume(e, "Semicolon", "Expect ';' after value."), LAMBDA s :
    EmitP(s, OP_POP, p.previous.line)))

\* Parser::block
block(p) ==
  IF ~check(p, "RightBrace") /\ ~check(p, "Eof")
  THEN Try(declaration(p), LAMBDA d : block(d))
  ELSE consume(p, "RightBrace", "Expected '}' after block.")

\* Parser::statement
statement(p) ==
  IfMatch(matches(p, "Print"), LAMBDA m1 : print_statement(m1), LAMBDA m1 :
  IfMatch(matches(m1, "If"), LAMBDA m2 : if_statement(m2), LAMBDA m2 :
  IfMatch(matches(m2, "LeftBrace"),
          LAMBDA m3 : Try(block(begin_scope(m3)), LAMBDA b : end_scope(b)),
          LAMBDA m3 : expression_statement(m3))))

\* chunk.patch_jump(offset).or_else(|e| parse_error(&if_token, &e))?
PatchJumpP(p, offset, if_token) ==
  LET r == patch_jump(p.chunk, offset) IN
  IF r.ok THEN [p EXCEPT !.chunk = r.chunk]
  ELSE parse_error(p, if_token, r.message)

\* chunk.emit_jump(instruction, line): ret is the offset of the placeholder.
EmitJumpP(p, instruction, line) ==
  LET r == emit_jump(p.chunk, instruction, line) IN
  [p EXCEPT !.chunk = r.chunk, !.ret = r.offset]

\* An if_statement that patches the jump-if-falsey only after it has emitted
\* the second discard, so that the jump leads past that discard.
if_statement_late_patch(p) ==
  Try(consume(p, "LeftParen", "Expect '(' after 'if'."), LAMBDA a :
  Try(expression(a), LAMBDA b :
  Try(consume(b, "RightParen", "Expect ')' after condition."), LAMBDA c :
  Try(EmitJumpP(c, OP_JUMP_IF_FALSE, p.previous.line), LAMBDA tj :
  Try(statement(EmitP(tj, OP_POP, tj.current.line)), LAMBDA d :
  Try(EmitJumpP(d, OP_JUMP, d.current.line), LAMBDA ej :
  Try(PatchJumpP(EmitP(ej, OP_POP, d.current.line), tj.ret, p.previous), LAMBDA f :
  Try(IfMatch(matches(f, "Else"),
              LAMBDA g : statement(g),
              LAMBDA g : g), LAMBDA h :
    PatchJumpP(h, ej.ret, p.previous)))))))))

\* Parser::if_statement
if_statement(p) ==
  Try(consume(p, "LeftParen", "Expect '(' after 'if'."), LAMBDA a :
  Try(expression(a), LAMBDA b :
  Try(consume(b, "RightParen", "Expect ')' after condition."), LAMBDA c :
  Try(EmitJumpP(c, OP_JUMP_IF_FALSE, p.previous.line), LAMBDA tj :
  Try(statement(EmitP(tj, OP_POP, tj.current.line)), LAMBDA d :
  Try(EmitJumpP(d, OP_JUMP, d.current.line), LAMBDA ej :
  Try(PatchJumpP(ej, tj.ret, p.previous), LAMBDA f :
  Try(IfMatch(matches(EmitP(f, OP_POP, d.current.line), "Else"),
              LAMBDA g : statement(g),
              LAMBDA g : g), LAMBDA h :
    PatchJumpP(h, ej.ret, p.previous)))))))))

RECURSIVE synchronize(_)
\* Parser::synchronize: the errors of advance() are ignored.
synchronize(p) ==
  IF p.current.tag = "Eof" \/ p.previous.tag = "Semicolon"
     \/ p.current.tag \in {"Class", "Fun", "Var", "For", "If", "While", "Print", "Return"}
  THEN p
  ELSE synchronize([advance(p) EXCEPT !.err = <<>>])

\* eprintln!("{}", e) on the pending error, which is then dropped.
Report(p, diags) == Append(diags, ErrorDisplay(p.err[1]))

RECURSIVE CompileLoop(_, _, _)
RECURSIVE CompileLoopMatched(_, _, _)
RECURSIVE CompileLoopDeclared(_, _, _)

\* The loop of compile: the parser at the break, the ok flag and the
\* diagnostics written so far.
CompileLoop(p, ok, diags) == CompileLoopMatched(matches(p, "Eof"), ok, diags)

\* The match on parser.matches(Eof).
CompileLoopMatched(m, ok, diags) ==
  IF Failed(m) THEN CompileLoop([m EXCEPT !.err = <<>>], FALSE, Report(m, diags))
  ELSE IF m.ret THEN [parser |-> m, ok |-> ok, diags |-> diags]
  ELSE CompileLoopDeclared(declaration(m), ok, diags)

\* The `if let Err(e) = parser.declaration(chunk)`.
CompileLoopDeclared(d, ok, diags) ==
  IF Failed(d)
  THEN CompileLoop(synchronize([d EXCEPT !.err = <<>>]), FALSE, Report(d, diags))
  ELSE CompileLoop(d, ok, diags)

\* compile after the first parser.advance().
CompileFrom(a) ==
  IF Failed(a)
  THEN CompileLoop([a EXCEPT !.err = <<>>], FALSE, Report(a, <<>>))
  ELSE CompileLoop(a, TRUE, <<>>)

\* The end of compile: the return instruction, and the disassembly when ok.
CompileEnd(r, checked) ==
  [chunk |-> emit(r.parser.chunk, OP_RETURN, r.parser.previous.line),
   ok |-> r.ok, diags |-> r.diags,
   locals |-> r.parser.locals, scope_depth |-> r.parser.scope_depth,
   panic |-> r.ok /\ disassemble(emit(r.parser.chunk, OP_RETURN, r.parser.previous.line),
                                 checked)]

\* compile(source, chunk): the chunk written, the bool returned, the
\* diagnostics written to stderr, whether the call panics (in
\* chunk.disassemble, which runs only when ok), and the local list and
\* scope depth the parser is dropped with.
compile(source, chunk, checked) ==
  CompileEnd(CompileFrom(advance(ParserNew(source, chunk))), checked)

\* ------------------------------------------------------------------------
\* vm.rs
\* ------------------------------------------------------------------------

\* The message runtime_error writes, kept as its format string and the
\* arguments formatted into it.
RtErr(text, name, line) == [text |-> text, name |-> name, line |-> line]

StackUnderflow == RtErr("stack underflow", <<>>, 0)

UnknownOp == RtErr("unknown op", <<>>, 0)

UndefinedVariable(key) == RtErr("Undefined variable '{}'.", key, 0)

OperandsMustBeNumbers(line) == RtErr("[line {}] operands must be numbers", <<>>, line)

OperandMustBeNumber(line) == RtErr("[line {}] operand must be a number", <<>>, line)

\* What one pass through the loop of run leaves: status is "running" when
\* the loop goes on, "Ok" or "Runtime" when run returns, and "Panic" when
\* the thread panics (an index out of range, an arithmetic overflow, a
\* failed expect).
Continue(ip, stack, globals) ==
  [status |-> "running", ip |-> ip, stack |-> stack, globals |-> globals,
   printed |-> <<>>, err |-> <<>>]

Printing(ip, stack, globals, value) ==
  [status |-> "running", ip |-> ip, stack |-> stack, globals |-> globals,
   printed |-> <<value>>, err |-> <<>>]

\* An OP_RETURN that lets the loop go on with the byte after it.
return_goes_on(ip, stack, globals) == Continue(ip, stack, globals)

Return(ip, stack, globals) ==
  [status |-> "Ok", ip |-> ip, stack |-> stack, globals |-> globals,
   printed |-> <<>>, err |-> <<>>]

\* A fault that writes its message and lets the loop go on.
runtime_error_continue(ip, stack, globals, msg) ==
  [status |-> "running", ip |-> ip, stack |-> stack, globals |-> globals,
   printed |-> <<>>, err |-> <<msg>>]

\* runtime_error(msg)
runtime_error(ip, stack, globals, msg) ==
  [status |-> "Runtime", ip |-> ip, stack |-> stack, globals |-> globals,
   printed |-> <<>>, err |-> <<msg>>]

Panic(ip, stack, globals) ==
  [status |-> "Panic", ip |-> ip, stack |-> stack, globals |-> globals,
   printed |-> <<>>, err |-> <<>>]

\* ValueStack::peek(distance): the index stack.len() - 1 - distance
\* underflows (a panic when overflow is checked, and an index out of range
\* after wrapping otherwise) unless the stack holds more than distance
\* values.
PeekPanics(stack, distance) == Len(stack) - 1 - distance < 0

peek(stack, distance) == At(stack, Len(stack) - 1 - distance)

\* The guards `stack.is_number(0) && stack.is_number(1)` and
\* `stack.is_string(0) && stack.is_string(1)` of the match arms, with the
\* short circuit of &&: "panic", "yes" or "no".
BothAre(stack, tag) ==
  IF PeekPanics(stack, 0) THEN "panic"
  ELSE IF peek(stack, 0).tag # tag THEN "no"
  ELSE IF PeekPanics(stack, 1) THEN "panic"
  ELSE IF peek(stack, 1).tag = tag THEN "yes"
  ELSE "no"

\* The top two values replaced by a result.
Replace2(stack, value) == Append(SubSeq(stack, 1, Len(stack) - 2), value)

\* The arms of the six binary instructions that run when both operands are
\* numbers: pop_f64 twice, then the push.
NumericResult(op, a, b) ==
  CASE op = OP_GREATER -> BoolV(F64Gt(a, b))
    [] op = OP_LESS -> BoolV(F64Lt(a, b))
    [] op = OP_ADD -> NumberV(F64Add(a, b))
    [] op = OP_SUBTRACT -> NumberV(F64Sub(a, b))
    [] op = OP_MULTIPLY -> NumberV(F64Mul(a, b))
    [] OTHER -> NumberV(F64Div(a, b))

\* A concatenation with the operand pushed last in front.
ConcatReversed(a, b) == new_string(b.s \o a.s)

\* The arm of OP_ADD on two strings: a's text with b's pushed onto it, as
\* a new object.
Concat(a, b) == new_string(a.s \o b.s)

\* Binary instructions that push nil for operands they cannot combine.
BinaryOpLenient(op, line, ip, stack, globals) ==
  IF BothAre(stack, "Number") = "panic" \/ BothAre(stack, "Obj") = "panic"
  THEN Panic(ip, stack, globals)
  ELSE IF BothAre(stack, "Number") = "yes"
  THEN Continue(ip, Replace2(stack, NumericResult(op, peek(stack, 1).x, peek(stack, 0).x)),
                globals)
  ELSE IF op = OP_ADD /\ BothAre(stack, "Obj") = "yes"
  THEN Continue(ip, Replace2(stack, new_string(peek(stack, 1).s \o peek(stack, 0).s)),
                globals)
  ELSE Continue(ip, Replace2(stack, NilV), globals)

\* The match arms of OP_GREATER .. OP_DIVIDE in run, in the order the
\* match tries them.
BinaryOp(op, line, ip, stack, globals) ==
  LET strs == IF op = OP_ADD THEN BothAre(stack, "Obj") ELSE "no"
      nums == BothAre(stack, "Number")
  IN
  IF strs = "panic" THEN Panic(ip, stack, globals)
  ELSE IF strs = "yes"
  THEN Continue(ip, Replace2(stack, Concat(peek(stack, 1), peek(stack, 0))), globals)
  ELSE IF nums = "panic" THEN Panic(ip, stack, globals)
  ELSE IF nums = "yes"
  THEN Continue(ip, Replace2(stack, NumericResult(op, peek(stack, 1).x, peek(stack, 0).x)),
                globals)
  ELSE IF op \in {OP_ADD, OP_SUBTRACT, OP_MULTIPLY, OP_DIVIDE}
  THEN runtime_error(ip, stack, globals, OperandsMustBeNumbers(line))
  ELSE runtime_error(ip, stack, globals, UnknownOp)

\* A table that treats every name as bound.
contains_key_always(globals, key) == TRUE

\* globals.contains_key(&key)
contains_key(globals, key) == key \in DOMAIN globals

\* A table that keeps the binding a name already has.
insert_if_absent(globals, key, value) ==
  IF key \in DOMAIN globals THEN globals ELSE (key :> value) @@ globals

\* A table that forgets every other name when one is bound.
insert_alone(globals, key, value) == (key :> value)

\* globals.insert(key, value)
insert(globals, key, value) == (key :> value) @@ globals

\* The arms OP_GET_GLOBAL, OP_DEFINE_GLOBAL and OP_SET_GLOBAL; ip is the
\* offset of the operand.  read_string panics on a constant that is no
\* string.
GlobalOp(op, c, ip, stack, globals) ==
  LET constant == At(c.constants, At(c.code, ip))
      key == constant.s
  IN
  IF ~is_string(constant) THEN Panic(ip + 1, stack, globals)
  ELSE IF op = OP_GET_GLOBAL
  THEN (IF key \in DOMAIN globals
        THEN Continue(ip + 1, Append(stack, ValueClone(globals[key])), globals)
        ELSE runtime_error(ip + 1, stack, globals, UndefinedVariable(key)))
  ELSE IF op = OP_DEFINE_GLOBAL
  THEN (IF PeekPanics(stack, 0) THEN Panic(ip + 1, stack, globals)
        ELSE Continue(ip + 1, Front(stack),
                      insert(globals, key, ValueClone(peek(stack, 0)))))
  ELSE (IF contains_key(globals, key)
        THEN (IF PeekPanics(stack, 0) THEN Panic(ip + 1, stack, globals)
              ELSE Continue(ip + 1, stack,
                            insert(globals, key, ValueClone(peek(stack, 0)))))
        ELSE runtime_error(ip + 1, stack, globals, UndefinedVariable(key)))

\* The match of run on the opcode op read at ip - 1, with the source line
\* of that byte.
Dispatch(op, line, c, ip, stack, globals) ==
  CASE op = OP_CONSTANT ->
         Continue(ip + 1, Append(stack, ValueClone(At(c.constants, At(c.code, ip)))),
                  globals)
    [] op = OP_NIL -> Continue(ip, Append(stack, NilV), globals)
    [] op = OP_TRUE -> Continue(ip, Append(stack, BoolV(TRUE)), globals)
    [] op = OP_FALSE -> Continue(ip, Append(stack, BoolV(FALSE)), globals)
    [] op = OP_POP ->
         IF stack = <<>> THEN runtime_error(ip, stack, globals, StackUnderflow)
         ELSE Continue(ip, Front(stack), globals)
    [] op = OP_GET_LOCAL ->
         \* push_offset(slot)
         IF At(c.code, ip) >= Len(stack) THEN Panic(ip + 1, stack, globals)
         ELSE Continue(ip + 1, Append(stack, ValueClone(At(stack, At(c.code, ip)))),
                       globals)
    [] op = OP_SET_LOCAL ->
         \* dup_to(slot)
         IF stack = <<>> \/ At(c.code, ip) >= Len(stack)
         THEN Panic(ip + 1, stack, globals)
         ELSE Continue(ip + 1, Put(stack, At(c.code, ip), ValueClone(Last(stack))),
                       globals)
    [] op \in {OP_GET_GLOBAL, OP_DEFINE_GLOBAL, OP_SET_GLOBAL} ->
         GlobalOp(op, c, ip, stack, globals)
    [] op = OP_EQUAL ->
         IF stack = <<>> THEN runtime_error(ip, stack, globals, StackUnderflow)
         ELSE IF Len(stack) = 1
         THEN runtime_error(ip, Front(stack), globals, StackUnderflow)
         ELSE Continue(ip, Replace2(stack, BoolV(ValueEq(peek(stack, 1), peek(stack, 0)))),
                       globals)
    [] op \in {OP_GREATER, OP_LESS, OP_ADD, OP_SUBTRACT, OP_MULTIPLY, OP_DIVIDE} ->
         BinaryOp(op, line, ip, stack, globals)
    [] op = OP_NOT ->
         IF stack = <<>> THEN runtime_error(ip, stack, globals, StackUnderflow)
         ELSE Continue(ip, Append(Front(stack), is_falsey(Last(stack))), globals)
    [] op = OP_NEGATE ->
         IF PeekPanics(stack, 0) THEN Panic(ip, stack, globals)
         ELSE IF is_number(peek(stack, 0))
         THEN Continue(ip, Append(Front(stack), NumberV(F64Neg(Last(stack).x))), globals)
         ELSE runtime_error(ip, stack, globals, OperandMustBeNumber(line))
    [] op = OP_PRINT ->
         IF stack = <<>> THEN runtime_error(ip, stack, globals, StackUnderflow)
         ELSE Printing(ip, Front(stack), globals, Last(stack))
    [] op = OP_RETURN -> Return(ip, stack, globals)
    [] OTHER -> runtime_error(ip, stack, globals, UnknownOp)

\* One pass through the loop of run: stack.print(), the disassembly of the
\* instruction at ip (which reads its operand bytes and its constant),
\* chunk.lines[ip], read_byte and the match.
RunLoopBody(c, ip, stack, globals, checked) ==
  IF disassemble_instruction(c, ip, checked).panic
  THEN Panic(ip, stack, globals)
  ELSE Dispatch(At(c.code, ip), At(c.lines, ip), c, ip + 1, stack, globals)

\* The heap objects Value::clone allocates: the Obj arm clones the object
\* behind the Rc and wraps the clone in a new Rc.
CloneAllocations(v) == IF v.tag = "Obj" THEN 1 ELSE 0

\* The heap objects one pass through the loop of run allocates: those of the
\* clone calls of its arm (in push_offset and dup_to too) and the one of
\* Obj::new_string in the arm of OP_ADD on two strings; none when the pass
\* panics before it gets there.
Allocations(c, ip, stack, globals, checked) ==
  IF disassemble_instruction(c, ip, checked).panic THEN 0
  ELSE
    LET op == At(c.code, ip)
        constant == At(c.constants, At(c.code, ip + 1))
    IN
    CASE op = OP_CONSTANT -> CloneAllocations(constant)
      [] op = OP_GET_LOCAL ->
           IF At(c.code, ip + 1) < Len(stack)
           THEN CloneAllocations(At(stack, At(c.code, ip + 1))) ELSE 0
      [] op = OP_SET_LOCAL ->
           IF stack # <<>> THEN CloneAllocations(Last(stack)) ELSE 0
      [] op = OP_GET_GLOBAL ->
           IF is_string(constant) /\ constant.s \in DOMAIN globals
           THEN CloneAllocations(globals[constant.s]) ELSE 0
      [] op = OP_DEFINE_GLOBAL ->
           IF is_string(constant) /\ ~PeekPanics(stack, 0)
           THEN CloneAllocations(peek(stack, 0)) ELSE 0
      [] op = OP_SET_GLOBAL ->
           IF is_string(constant) /\ contains_key(globals, constant.s)
              /\ ~PeekPanics(stack, 0)
           THEN CloneAllocations(peek(stack, 0)) ELSE 0
      [] op = OP_ADD -> IF BothAre(stack, "Obj") = "yes" THEN 1 ELSE 0
      [] OTHER -> 0

\* ------------------------------------------------------------------------
\* The program as a state machine: calls of interpret on the caller's
\* global table (run_file in main.rs makes one call, the loop of repl one
\* per line), each run advancing one instruction per step.
\* ------------------------------------------------------------------------

VARIABLES
  checked,    \* whether the build checks integer overflow (a debug build)
  globals,    \* the caller's global table: name -> Value
  phase,      \* "idle", "running" (inside run) or "dead" (after a panic)
  source,     \* the source text of the current or last call
  compile_ok, \* whether compile returned true in the current or last call
  chunk,      \* the chunk being run
  ip,         \* run's instruction pointer
  stack,      \* run's operand stack
  out,        \* the values the print statements of this call have written
  errs,       \* the messages this call has written to stderr
  result,     \* "none", or how the last call ended: "Ok", "Compile", "Runtime", "Panic"
  calls,      \* the number of calls made
  executed,   \* the instructions this call has dispatched
  lastop,     \* the opcode dispatched last in this call, -1 before the first
  globals0,   \* the global table as it was when this call began
  locals,     \* the parser's local list when compile returned
  scope_depth, \* the parser's scope depth when compile returned
  pending,    \* the offsets emit_jump has returned that are not patched yet
  called,     \* the Chunk method called last, its argument and its result
  scanner,    \* the Scanner whose next_token is being called
  tokens,     \* the tokens its next_token calls have returned so far
  allocated   \* the heap objects run has allocated in this call

\* No Chunk method has been called yet.
NoCall == [name |-> "none", arg |-> 0, ok |-> TRUE, message |-> ""]

vars == <<checked, globals, phase, source, compile_ok, chunk, ip, stack, out,
          errs, result, calls, executed, lastop, globals0, locals, scope_depth,
          pending, called, scanner, tokens, allocated>>

\* ------------------------------------------------------------------------
\* Source texts
\* ------------------------------------------------------------------------

RECURSIVE Cat(_)
\* The concatenation of a sequence of texts.
Cat(parts) == IF parts = <<>> THEN <<>> ELSE Head(parts) \o Cat(Tail(parts))

TxtVarA == <<"v", "a", "r", " ", "a", " ", "=", " ">>

TxtVarB == <<"v", "a", "r", " ", "b", " ", "=", " ">>

TxtPrintA == <<"p", "r", "i", "n", "t", " ", "a", ";">>

TxtPrint == <<"p", "r", "i", "n", "t", " ">>

TxtIf == <<"i", "f", " ", "(">>

TxtElse == <<" ", "e", "l", "s", "e", " ">>

TxtSemi == <<";">>

TxtNl == <<"\n">>

TxtOpen == <<"{", " ">>

TxtClose == <<" ", "}">>

TxtThen == <<")", " ">>

LitOne == <<"1">>

LitTwo == <<"2">>

LitTrue == <<"t", "r", "u", "e">>

LitFalse == <<"f", "a", "l", "s", "e">>

LitNil == <<"n", "i", "l">>

LitOuter == <<"\"", "o", "u", "t", "e", "r", "\"">>

LitInner == <<"\"", "i", "n", "n", "e", "r", "\"">>

LitX == <<"\"", "x", "\"">>

LitY == <<"\"", "y", "\"">>

\* a = 1;
SrcGlobalSetUndefined ==
  <<"a", " ", "=", " ", "1", ";">>

\* var b = 1; print b; a = b; print 3; var c = 2;
SrcGlobalSetUndefinedLater ==
  <<"v", "a", "r", " ", "b", " ", "=", " ", "1", ";", "\n", "p", "r", "i", "n", "t", " ", "b", ";", "\n", "a", " ", "=", " ", "b", ";", "\n", "p", "r", "i", "n", "t", " ", "3", ";", "\n", "v", "a", "r", " ", "c", " ", "=", " ", "2", ";">>

\* var a = 1; a = 2; print a;
SrcGlobalSetDefined ==
  <<"v", "a", "r", " ", "a", " ", "=", " ", "1", ";", "\n", "a", " ", "=", " ", "2", ";", "\n", "p", "r", "i", "n", "t", " ", "a", ";">>

\* var a; print a = "s"; print a;
SrcGlobalSetValue ==
  <<"v", "a", "r", " ", "a", ";", "\n", "p", "r", "i", "n", "t", " ", "a", " ", "=", " ", "\"", "s", "\"", ";", "\n", "p", "r", "i", "n", "t", " ", "a", ";">>

\* a = "t"; print a;
SrcGlobalSetOnly ==
  <<"a", " ", "=", " ", "\"", "t", "\"", ";", "\n", "p", "r", "i", "n", "t", " ", "a", ";">>

\* var a = 1; var a = 2; print a;
SrcGlobalRedefine ==
  <<"v", "a", "r", " ", "a", " ", "=", " ", "1", ";", "\n", "v", "a", "r", " ", "a", " ", "=", " ", "2", ";", "\n", "p", "r", "i", "n", "t", " ", "a", ";">>

\* var a = "s"; var a; print a;
SrcGlobalRedefineNil ==
  <<"v", "a", "r", " ", "a", " ", "=", " ", "\"", "s", "\"", ";", "\n", "v", "a", "r", " ", "a", ";", "\n", "p", "r", "i", "n", "t", " ", "a", ";">>

\* var a = 1; var a = a + 1; var a = a + a; print a;
SrcGlobalRedefineSelf ==
  <<"v", "a", "r", " ", "a", " ", "=", " ", "1", ";", "\n", "v", "a", "r", " ", "a", " ", "=", " ", "a", " ", "+", " ", "1", ";", "\n", "v", "a", "r", " ", "a", " ", "=", " ", "a", " ", "+", " ", "a", ";", "\n", "p", "r", "i", "n", "t", " ", "a", ";">>

\* var b = "u";
SrcGlobalDefineB ==
  <<"v", "a", "r", " ", "b", " ", "=", " ", "\"", "u", "\"", ";">>

\* print a;
SrcPrintA ==
  <<"p", "r", "i", "n", "t", " ", "a", ";">>

\* print 1; print -"s"; print 2;
SrcFaultNegate ==
  <<"p", "r", "i", "n", "t", " ", "1", ";", "\n", "p", "r", "i", "n", "t", " ", "-", "\"", "s", "\"", ";", "\n", "p", "r", "i", "n", "t", " ", "2", ";">>

\* var a = 1; print a + "s"; var b = 2;
SrcFaultAdd ==
  <<"v", "a", "r", " ", "a", " ", "=", " ", "1", ";", "\n", "p", "r", "i", "n", "t", " ", "a", " ", "+", " ", "\"", "s", "\"", ";", "\n", "v", "a", "r", " ", "b", " ", "=", " ", "2", ";">>

\* print 1 < 2; var b = 3; print "s" < 1; var b = 4; print 2;
SrcFaultLess ==
  <<"p", "r", "i", "n", "t", " ", "1", " ", "<", " ", "2", ";", "\n", "v", "a", "r", " ", "b", " ", "=", " ", "3", ";", "\n", "p", "r", "i", "n", "t", " ", "\"", "s", "\"", " ", "<", " ", "1", ";", "\n", "v", "a", "r", " ", "b", " ", "=", " ", "4", ";", "\n", "p", "r", "i", "n", "t", " ", "2", ";">>

\* print 2 >= 1; print nil >= 1;
SrcFaultGreaterEqual ==
  <<"p", "r", "i", "n", "t", " ", "2", " ", ">", "=", " ", "1", ";", "\n", "p", "r", "i", "n", "t", " ", "n", "i", "l", " ", ">", "=", " ", "1", ";">>

\* print c; var c = 1;
SrcFaultUndefined ==
  <<"p", "r", "i", "n", "t", " ", "c", ";", "\n", "v", "a", "r", " ", "c", " ", "=", " ", "1", ";">>

\* print 2 + 3 * 4; print (2 + 3) * 4; print 8 - 3 - 2; print 1 / 2;
SrcArithmetic ==
  <<"p", "r", "i", "n", "t", " ", "2", " ", "+", " ", "3", " ", "*", " ", "4", ";", "\n", "p", "r", "i", "n", "t", " ", "(", "2", " ", "+", " ", "3", ")", " ", "*", " ", "4", ";", "\n", "p", "r", "i", "n", "t", " ", "8", " ", "-", " ", "3", " ", "-", " ", "2", ";", "\n", "p", "r", "i", "n", "t", " ", "1", " ", "/", " ", "2", ";">>

\* print "a" + "b"; print "a" == "a"; print !nil;
SrcConcat ==
  <<"p", "r", "i", "n", "t", " ", "\"", "a", "\"", " ", "+", " ", "\"", "b", "\"", ";", "\n", "p", "r", "i", "n", "t", " ", "\"", "a", "\"", " ", "=", "=", " ", "\"", "a", "\"", ";", "\n", "p", "r", "i", "n", "t", " ", "!", "n", "i", "l", ";">>

\* print 1
SrcErrNoSemicolon ==
  <<"p", "r", "i", "n", "t", " ", "1">>

\* var a = 1; 1 = 2; print a;
SrcErrAssignTarget ==
  <<"v", "a", "r", " ", "a", " ", "=", " ", "1", ";", "\n", "1", " ", "=", " ", "2", ";", "\n", "p", "r", "i", "n", "t", " ", "a", ";">>

\* print 1; var a = 2; print ; print 3;
SrcErrThenPrint ==
  <<"p", "r", "i", "n", "t", " ", "1", ";", "\n", "v", "a", "r", " ", "a", " ", "=", " ", "2", ";", "\n", "p", "r", "i", "n", "t", " ", ";", "\n", "p", "r", "i", "n", "t", " ", "3", ";">>

\* var a = 1; print "abc
SrcErrUnterminated ==
  <<"v", "a", "r", " ", "a", " ", "=", " ", "1", ";", "\n", "p", "r", "i", "n", "t", " ", "\"", "a", "b", "c">>

\* var a = 1; @
SrcErrBadChar ==
  <<"v", "a", "r", " ", "a", " ", "=", " ", "1", ";", "\n", "@">>

\* 
SrcEmpty ==
  <<>>

\* The values a literal of the source texts below denotes.
LitValue(lit) ==
  CASE lit = LitOne -> NumberV(F64(1, 1))
    [] lit = LitTwo -> NumberV(F64(2, 1))
    [] lit = LitTrue -> BoolV(TRUE)
    [] lit = LitFalse -> BoolV(FALSE)
    [] lit = LitNil -> NilV
    [] OTHER -> new_string(SubSeq(lit, 2, Len(lit) - 1))

\* if (<cond>) print "x"; else print "y";
IfElseSrc(cond) ==
  Cat(<<TxtIf, cond, TxtThen, TxtPrint, LitX, TxtSemi, TxtElse, TxtPrint, LitY, TxtSemi>>)

\* if (<cond>) print "x";  print "y";
IfSrc(cond) ==
  Cat(<<TxtIf, cond, TxtThen, TxtPrint, LitX, TxtSemi, TxtNl, TxtPrint, LitY, TxtSemi>>)

Conditions == {LitTrue, LitFalse, LitNil, LitOne, LitX}

IfElseSources == {IfElseSrc(c) : c \in Conditions}

IfSources == {IfSrc(c) : c \in Conditions}

\* var a = <g>;  { var a = <l>; print a; }  print a;
ShadowSrc(g, l) ==
  Cat(<<TxtVarA, g, TxtSemi, TxtNl,
        TxtOpen, TxtVarA, l, TxtSemi, TxtPrintA, TxtClose, TxtNl, TxtPrintA>>)

\* var a = <g>;  { var b = 2; var a = <l>; print a; print b; print a; }  print a;
ShadowSrc2(g, l) ==
  Cat(<<TxtVarA, g, TxtSemi, TxtNl,
        TxtOpen, TxtVarB, LitTwo, TxtSemi, TxtVarA, l, TxtSemi, TxtPrintA,
        TxtPrint, <<"b">>, TxtSemi, TxtPrintA, TxtClose, TxtNl, TxtPrintA>>)

ShadowValues == {LitOuter, LitInner, LitOne, LitNil}

ShadowSources ==
  {ShadowSrc(g, l) : g \in ShadowValues, l \in ShadowValues}

ShadowSources2 ==
  {ShadowSrc2(g, l) : g \in {LitOuter, LitOne}, l \in {LitInner, LitNil}}

\* <prefix> { <inner> var a = <init>; }  print 1;
SelfInitSrc(prefix, inner, init) ==
  Cat(<<prefix, TxtOpen, inner, TxtVarA, init, TxtSemi, TxtClose, TxtNl,
        TxtPrint, LitOne, TxtSemi>>)

\* The initializers that read a.
SelfInits ==
  {<<"a">>, <<"-", "a">>, <<"a", " ", "+", " ", "1">>, <<"1", " ", "+", " ", "a">>,
   <<"(", "a", ")">>, <<"!", "a">>, <<"a", " ", "=", " ", "1">>}

\* What precedes the block: nothing, or a global a.
SelfInitPrefixes == {<<>>, Cat(<<TxtVarA, LitOne, TxtSemi, TxtNl>>)}

\* What precedes the declaration inside the block: nothing, another local,
\* or a nested block that opens here (closed by a second brace).
SelfInitInners == {<<>>, Cat(<<TxtVarB, LitTwo, TxtSemi>>)}

SelfInitSources ==
  {SelfInitSrc(p, i, e) : p \in SelfInitPrefixes, i \in SelfInitInners, e \in SelfInits}
  \cup {Cat(<<TxtOpen, TxtVarA, LitOne, TxtSemi, TxtOpen, TxtVarA, <<"a">>, TxtSemi,
              TxtClose, TxtClose>>)}

LitEmpty == <<"\"", "\"">>

\* var a = <l>;  var b = <r>;  print a + b;  print a;  print b;
ConcatSrc(l, r) ==
  Cat(<<TxtVarA, l, TxtSemi, TxtNl, TxtVarB, r, TxtSemi, TxtNl,
        TxtPrint, <<"a", " ", "+", " ", "b">>, TxtSemi, TxtNl,
        TxtPrintA, TxtNl, TxtPrint, <<"b">>, TxtSemi>>)

ConcatValues == {LitX, LitY, LitEmpty}

ConcatSources == {ConcatSrc(l, r) : l, r \in ConcatValues}

\* print 2;  print <l> + <r>;  print 1;
MixedAddSrc(l, r) ==
  Cat(<<TxtPrint, LitTwo, TxtSemi, TxtNl,
        TxtPrint, l, <<" ", "+", " ">>, r, TxtSemi, TxtNl,
        TxtPrint, LitOne, TxtSemi>>)

\* A string and a number in either order, and a string and nil.
MixedAddPairs == {<<LitX, LitOne>>, <<LitOne, LitX>>, <<LitX, LitNil>>, <<LitEmpty, LitTwo>>}

MixedAddSources == {MixedAddSrc(q[1], q[2]) : q \in MixedAddPairs}

\* print <l> == <r>;
EqualSrc(l, r) == Cat(<<TxtPrint, l, <<" ", "=", "=", " ">>, r, TxtSemi>>)

EqualValues == {LitOne, LitTwo, LitX, LitY, LitNil, LitTrue, LitFalse}

EqualSources == {EqualSrc(l, r) : l, r \in EqualValues}

\* print "x" + "y" == "xy";
SrcEqualBuilt ==
  Cat(<<TxtPrint, LitX, <<" ", "+", " ">>, LitY, <<" ", "=", "=", " ">>,
        <<"\"", "x", "y", "\"">>, TxtSemi>>)

OtherSources ==
  {SrcGlobalSetUndefined, SrcGlobalSetUndefinedLater, SrcGlobalSetDefined,
   SrcGlobalSetValue, SrcGlobalSetOnly, SrcGlobalRedefine, SrcGlobalRedefineNil,
   SrcGlobalRedefineSelf, SrcGlobalDefineB, SrcPrintA, SrcFaultNegate, SrcFaultAdd,
   SrcFaultLess, SrcFaultGreaterEqual, SrcFaultUndefined, SrcArithmetic, SrcConcat,
   SrcErrNoSemicolon, SrcErrAssignTarget, SrcErrThenPrint, SrcErrUnterminated,
   SrcErrBadChar, SrcEmpty}

\* The source texts interpret is called with.
Sources ==
  IfElseSources \cup IfSources \cup ShadowSources \cup ShadowSources2
  \cup SelfInitSources \cup OtherSources

\* The number of interpret calls of one behaviour.
MaxCalls == 1

\* The global table the caller hands to the first call: empty, or with
\* bindings earlier calls have left.
StartGlobals ==
  {<<>>, (<<"a">> :> NumberV(F64(2, 1))) @@ (<<"b">> :> new_string(<<"u">>))}

TypeOK ==
  /\ checked \in BOOLEAN
  /\ phase \in {"idle", "running", "dead"}
  /\ result \in {"none", "Ok", "Compile", "Runtime", "Panic"}
  /\ calls \in 0..(MaxCalls + 1)

Init ==
  /\ checked \in BOOLEAN
  /\ globals \in StartGlobals
  /\ phase = "idle"
  /\ source = <<>>
  /\ compile_ok = FALSE
  /\ chunk = ChunkNew
  /\ ip = 0
  /\ stack = <<>>
  /\ out = <<>>
  /\ errs = <<>>
  /\ result = "none"
  /\ calls = 0
  /\ executed = 0
  /\ lastop = -1
  /\ globals0 = globals
  /\ locals = <<>>
  /\ scope_depth = 0
  /\ pending = {}
  /\ called = NoCall
  /\ scanner = ScannerNew(<<>>)
  /\ tokens = <<>>
  /\ allocated = 0

\* run(chunk, globals) up to its loop: an empty chunk returns Ok at once.
RunStart(c) ==
  /\ chunk' = c
  /\ ip' = 0
  /\ stack' = <<>>
  /\ IF Len(c.code) = 0
     THEN phase' = "idle" /\ result' = "Ok"
     ELSE phase' = "running" /\ result' = "none"

\* An interpret that runs the chunk whatever compile returned.
interpret_run_always(compiled) ==
  IF compiled.panic THEN "Panic" ELSE "run"

\* The `if compiler::compile(source, &mut chunk)` of interpret: what the
\* call does once compile is over.
interpret(compiled) ==
  IF compiled.panic THEN "Panic"
  ELSE IF compiled.ok THEN "run"
  ELSE "Compile"

\* interpret(source, globals) once compile has returned r: run the chunk or
\* return the Compile error.
Interpreted(src, r) ==
  /\ phase = "idle"
  /\ /\ source' = src
     /\ calls' = calls + 1
     /\ compile_ok' = (r.ok /\ ~r.panic)
     /\ locals' = r.locals
     /\ scope_depth' = r.scope_depth
     /\ UNCHANGED <<pending, called, scanner, tokens>>
     /\ allocated' = 0
     /\ out' = <<>>
     /\ errs' = r.diags
     /\ executed' = 0
     /\ lastop' = -1
     /\ globals0' = globals
     /\ IF interpret(r) = "run"
        THEN RunStart(r.chunk)
        ELSE /\ phase' = (IF interpret(r) = "Panic" THEN "dead" ELSE "idle")
             /\ result' = interpret(r)
             /\ chunk' = r.chunk
             /\ ip' = 0
             /\ stack' = <<>>
  /\ UNCHANGED <<checked, globals>>

\* interpret(src, globals), compile starting on a new chunk.
InterpretCall(src) == Interpreted(src, compile(src, ChunkNew, checked))

\* One pass through the loop of run.
Step ==
  /\ phase = "running"
  /\ LET r == RunLoopBody(chunk, ip, stack, globals, checked)
         dispatched == ~disassemble_instruction(chunk, ip, checked).panic
     IN
     /\ ip' = r.ip
     /\ stack' = r.stack
     /\ globals' = r.globals
     /\ out' = out \o r.printed
     /\ errs' = errs \o r.err
     /\ executed' = IF dispatched THEN executed + 1 ELSE executed
     /\ allocated' = allocated + Allocations(chunk, ip, stack, globals, checked)
     /\ lastop' = IF dispatched THEN At(chunk.code, ip) ELSE lastop
     /\ phase' = CASE r.status = "running" -> "running"
                   [] r.status = "Panic" -> "dead"
                   [] OTHER -> "idle"
     /\ result' = IF r.status = "running" THEN "none" ELSE r.status
  /\ UNCHANGED <<checked, source, compile_ok, chunk, calls, globals0, locals,
                 scope_depth, pending, called, scanner, tokens>>

\* A call of interpret by repl or run_file.
Interpret(src) == calls < MaxCalls /\ InterpretCall(src)

Next == (\E src \in Sources : Interpret(src)) \/ Step

Spec == Init /\ [][Next]_vars

\* ------------------------------------------------------------------------
\* run_file: one call of interpret on a new, empty global table.
\* ------------------------------------------------------------------------

ArithOps == {"+", "-", "*", "/"}

\* The number literals of the arithmetic texts, in the order they appear.
ArithLits == <<<<"8">>, <<"3">>, <<"2">>, <<"5">>>>

\* The numbers they denote.
ArithNums == <<F64(8, 1), F64(3, 1), F64(2, 1), F64(5, 1)>>

RECURSIVE ArithText(_, _)
\* 8 <ops[1]> 3 <ops[2]> 2 ..., from the literal after the i-th.
ArithText(ops, i) ==
  IF i > Len(ops) THEN <<>>
  ELSE <<" ", ops[i], " ">> \o ArithLits[i + 1] \o ArithText(ops, i + 1)

\* print 8 <ops[1]> 3 <ops[2]> 2 ...;
ArithFlatSrc(ops) == Cat(<<TxtPrint, ArithLits[1], ArithText(ops, 1), TxtSemi>>)

\* print (8 <o1> 3) <o2> 2;
ArithLeftSrc(o1, o2) ==
  Cat(<<TxtPrint, <<"(">>, ArithLits[1], <<" ", o1, " ">>, ArithLits[2], <<")">>,
        <<" ", o2, " ">>, ArithLits[3], TxtSemi>>)

\* print 8 <o1> (3 <o2> 2);
ArithRightSrc(o1, o2) ==
  Cat(<<TxtPrint, ArithLits[1], <<" ", o1, " ">>, <<"(">>, ArithLits[2],
        <<" ", o2, " ">>, ArithLits[3], <<")">>, TxtSemi>>)

\* The operator sequences of the texts without parentheses.
ArithOpSeqs == UNION {[1..n -> ArithOps] : n \in 1..3}

ArithSources ==
  {ArithFlatSrc(ops) : ops \in ArithOpSeqs}
  \cup {ArithLeftSrc(o1, o2) : o1, o2 \in ArithOps}
  \cup {ArithRightSrc(o1, o2) : o1, o2 \in ArithOps}

\* The binary operators, as texts.
ChainOps ==
  {<<"=", "=">>, <<"!", "=">>, <<"<">>, <<"<", "=">>, <<">">>, <<">", "=">>,
   <<"+">>, <<"-">>, <<"*">>, <<"/">>}

\* print 1 <o> 2 <o> 3;
ChainSrc(o) ==
  Cat(<<TxtPrint, LitOne, <<" ">>, o, <<" ">>, LitTwo, <<" ">>, o, <<" ">>, <<"3">>,
        TxtSemi>>)

\* print (1 <o> 2) <o> 3;
ChainLeftSrc(o) ==
  Cat(<<TxtPrint, <<"(">>, LitOne, <<" ">>, o, <<" ">>, LitTwo, <<")">>, <<" ">>, o,
        <<" ">>, <<"3">>, TxtSemi>>)

\* print 1 == 2 == false;
SrcChainEqualFalse ==
  Cat(<<TxtPrint, LitOne, <<" ", "=", "=", " ">>, LitTwo, <<" ", "=", "=", " ">>,
        LitFalse, TxtSemi>>)

ChainSources ==
  {ChainSrc(o) : o \in ChainOps} \cup {ChainLeftSrc(o) : o \in ChainOps}
  \cup {SrcChainEqualFalse}

UnaryOps == {<<"-">>, <<"!">>}

\* print <u>1 <o> 2;
UnarySrc(u, o) ==
  Cat(<<TxtPrint, u, LitOne, <<" ">>, o, <<" ">>, LitTwo, TxtSemi>>)

\* print (<u>1) <o> 2;
UnaryLeftSrc(u, o) ==
  Cat(<<TxtPrint, <<"(">>, u, LitOne, <<")">>, <<" ">>, o, <<" ">>, LitTwo, TxtSemi>>)

UnarySources ==
  {UnarySrc(u, o) : u \in UnaryOps, o \in ChainOps}
  \cup {UnaryLeftSrc(u, o) : u \in UnaryOps, o \in ChainOps}

\* The texts with an `=` after something that is no assignment target.
InvalidAssignSources ==
  {\* a + b = c;
   <<"a", " ", "+", " ", "b", " ", "=", " ", "c", ";">>,
   \* (a) = 1;
   <<"(", "a", ")", " ", "=", " ", "1", ";">>,
   \* -a = 1;
   <<"-", "a", " ", "=", " ", "1", ";">>,
   \* 1 = 2;
   <<"1", " ", "=", " ", "2", ";">>,
   \* a * b = 1;
   <<"a", " ", "*", " ", "b", " ", "=", " ", "1", ";">>,
   \* !a = 1;
   <<"!", "a", " ", "=", " ", "1", ";">>,
   \* a == b = 1;
   <<"a", " ", "=", "=", " ", "b", " ", "=", " ", "1", ";">>,
   \* a = 1 = 2;
   <<"a", " ", "=", " ", "1", " ", "=", " ", "2", ";">>,
   \* "s" = 1;
   <<"\"", "s", "\"", " ", "=", " ", "1", ";">>,
   \* nil = 1;
   <<"n", "i", "l", " ", "=", " ", "1", ";">>,
   \* print 1 + a = 2;
   <<"p", "r", "i", "n", "t", " ", "1", " ", "+", " ", "a", " ", "=", " ", "2", ";">>,
   \* var b = 1 + a = 2;
   <<"v", "a", "r", " ", "b", " ", "=", " ", "1", " ", "+", " ", "a", " ", "=", " ", "2", ";">>,
   \* { var a = 1; (a) = 2; }
   <<"{", " ", "v", "a", "r", " ", "a", " ", "=", " ", "1", ";", " ", "(", "a", ")", " ", "=", " ", "2", ";", " ", "}">>,
   \* { var a = 1; a + a = 2; }
   <<"{", " ", "v", "a", "r", " ", "a", " ", "=", " ", "1", ";", " ", "a", " ", "+", " ", "a", " ", "=", " ", "2", ";", " ", "}">>,
   \* a < b = 1;
   <<"a", " ", "<", " ", "b", " ", "=", " ", "1", ";">>}

\* (a = 1) = 2;
SrcInvalidAfterAssign ==
  <<"(", "a", " ", "=", " ", "1", ")", " ", "=", " ", "2", ";">>

\* Texts whose every `=` outside a var declaration is an assignment, with
\* the number of these.
ValidAssignSources ==
  {\* a = 1;
   <<<<"a", " ", "=", " ", "1", ";">>, 1>>,
   \* var a; var b; a = b = 2; print a;
   <<<<"v", "a", "r", " ", "a", ";", " ", "v", "a", "r", " ", "b", ";", " ", "a", " ", "=", " ", "b", " ", "=", " ", "2", ";", " ", "p", "r", "i", "n", "t", " ", "a", ";">>, 2>>,
   \* var a; print (a = 1) + 1;
   <<<<"v", "a", "r", " ", "a", ";", " ", "p", "r", "i", "n", "t", " ", "(", "a", " ", "=", " ", "1", ")", " ", "+", " ", "1", ";">>, 1>>,
   \* { var a; a = 1; print a; }
   <<<<"{", " ", "v", "a", "r", " ", "a", ";", " ", "a", " ", "=", " ", "1", ";", " ", "p", "r", "i", "n", "t", " ", "a", ";", " ", "}">>, 1>>,
   \* var a = 1; var b = a = 2; print b;
   <<<<"v", "a", "r", " ", "a", " ", "=", " ", "1", ";", " ", "v", "a", "r", " ", "b", " ", "=", " ", "a", " ", "=", " ", "2", ";", " ", "p", "r", "i", "n", "t", " ", "b", ";">>, 1>>,
   \* print 1;
   <<<<"p", "r", "i", "n", "t", " ", "1", ";">>, 0>>}

\* The texts of the files.
\* Blocks that declare a name again, some after a compile error in the
\* same block.
RedeclareSources ==
  {\* { var a = 1; var b = ; var a = 2; }
   <<"{", " ", "v", "a", "r", " ", "a", " ", "=", " ", "1", ";", " ", "v", "a", "r", " ", "b", " ", "=", " ", ";", " ", "v", "a", "r", " ", "a", " ", "=", " ", "2", ";", " ", "}">>,
   \* { var a = ; var a = ; }
   <<"{", " ", "v", "a", "r", " ", "a", " ", "=", " ", ";", " ", "v", "a", "r", " ", "a", " ", "=", " ", ";", " ", "}">>,
   \* { var a = 1; var a = 2; }
   <<"{", " ", "v", "a", "r", " ", "a", " ", "=", " ", "1", ";", " ", "v", "a", "r", " ", "a", " ", "=", " ", "2", ";", " ", "}">>,
   \* { var a = 1; print ; var a = 2; }
   <<"{", " ", "v", "a", "r", " ", "a", " ", "=", " ", "1", ";", " ", "p", "r", "i", "n", "t", " ", ";", " ", "v", "a", "r", " ", "a", " ", "=", " ", "2", ";", " ", "}">>,
   \* { var a = 1; { var b = 2; } var b = 3; print a + b; }
   <<"{", " ", "v", "a", "r", " ", "a", " ", "=", " ", "1", ";", " ", "{", " ", "v", "a", "r", " ", "b", " ", "=", " ", "2", ";", " ", "}", " ", "v", "a", "r", " ", "b", " ", "=", " ", "3", ";", " ", "p", "r", "i", "n", "t", " ", "a", " ", "+", " ", "b", ";", " ", "}">>}

\* If statements as <<condition, then-branch, else-branch>>, the else-branch
\* empty when there is none.
IfShapes ==
  {\* if (true) print 1;
   <<<<"t", "r", "u", "e">>,
     <<"p", "r", "i", "n", "t", " ", "1", ";">>,
     <<>>>>,
   \* if (false) print 1; else print 2;
   <<<<"f", "a", "l", "s", "e">>,
     <<"p", "r", "i", "n", "t", " ", "1", ";">>,
     <<"p", "r", "i", "n", "t", " ", "2", ";">>>>,
   \* if (nil) 1; else { var x = 2; print x; }
   <<<<"n", "i", "l">>,
     <<"1", ";">>,
     <<"{", " ", "v", "a", "r", " ", "x", " ", "=", " ", "2", ";", " ", "p", "r", "i", "n", "t", " ", "x", ";", " ", "}">>>>,
   \* if (1 < 2) { print 1; print 2; }
   <<<<"1", " ", "<", " ", "2">>,
     <<"{", " ", "p", "r", "i", "n", "t", " ", "1", ";", " ", "p", "r", "i", "n", "t", " ", "2", ";", " ", "}">>,
     <<>>>>,
   \* if (a) if (b) print 1; else print 2; else print 3;
   <<<<"a">>,
     <<"i", "f", " ", "(", "b", ")", " ", "p", "r", "i", "n", "t", " ", "1", ";", " ", "e", "l", "s", "e", " ", "p", "r", "i", "n", "t", " ", "2", ";">>,
     <<"p", "r", "i", "n", "t", " ", "3", ";">>>>,
   \* if (a) print 1; else if (b) print 2;
   <<<<"a">>,
     <<"p", "r", "i", "n", "t", " ", "1", ";">>,
     <<"i", "f", " ", "(", "b", ")", " ", "p", "r", "i", "n", "t", " ", "2", ";">>>>,
   \* if (!a) { var x = 1; if (x) { var y = 2; print y; } } else {}
   <<<<"!", "a">>,
     <<"{", " ", "v", "a", "r", " ", "x", " ", "=", " ", "1", ";", " ", "i", "f", " ", "(", "x", ")", " ", "{", " ", "v", "a", "r", " ", "y", " ", "=", " ", "2", ";", " ", "p", "r", "i", "n", "t", " ", "y", ";", " ", "}", " ", "}">>,
     <<"{", "}">>>>,
   \* if ("s") {}
   <<<<"\"", "s", "\"">>,
     <<"{", "}">>,
     <<>>>>}

\* The text of an if statement.
IfText(q) ==
  TxtIf \o q[1] \o TxtThen \o q[2]
  \o (IF q[3] = <<>> THEN <<>> ELSE TxtElse \o q[3])

IfShapeSources == {IfText(q) : q \in IfShapes}

\* Statements with an error, the last of them with a character the scanner
\* does not recognize as the first token of the text.
FaultyFirsts ==
  {\* print ;
   <<"p", "r", "i", "n", "t", " ", ";">>,
   \* var = 1;
   <<"v", "a", "r", " ", "=", " ", "1", ";">>,
   \* 1 + ;
   <<"1", " ", "+", " ", ";">>,
   \* { print ; }
   <<"{", " ", "p", "r", "i", "n", "t", " ", ";", " ", "}">>,
   \* print 1 @ ;
   <<"p", "r", "i", "n", "t", " ", "1", " ", "@", " ", ";">>,
   \* @ 1;
   <<"@", " ", "1", ";">>}

\* Statements with an error as <<text, message, lexeme the message is at>>.
FaultySeconds ==
  {\* print ;
   <<<<"p", "r", "i", "n", "t", " ", ";">>, "unexpected token", ";">>,
   \* var 1;
   <<<<"v", "a", "r", " ", "1", ";">>, "Expected variable name", "1">>}

\* A statement with an error, and another one on the next line.
TwoFaults(f, s) == f \o <<"\n">> \o s[1]

FaultySources ==
  {s[1] : s \in FaultySeconds}
  \cup {TwoFaults(f, s) : f \in FaultyFirsts, s \in FaultySeconds}

\* Texts with a character the scanner does not recognize or with a string
\* that is not closed, after a statement, inside one, after an error, after
\* a comment; and two texts that have such characters inside a string and
\* inside a comment only.
LexicalSources ==
  {\* print 1; @
   <<"p", "r", "i", "n", "t", " ", "1", ";", " ", "@">>,
   \* print 1; "abc
   <<"p", "r", "i", "n", "t", " ", "1", ";", " ", "\"", "a", "b", "c">>,
   \* print "a@b";
   <<"p", "r", "i", "n", "t", " ", "\"", "a", "@", "b", "\"", ";">>,
   \* print 1; // @ "\nprint 2;
   <<"p", "r", "i", "n", "t", " ", "1", ";", " ", "/", "/", " ", "@", " ", "\"", "\n", "p", "r", "i", "n", "t", " ", "2", ";">>,
   \* print ; @ ; print 2;
   <<"p", "r", "i", "n", "t", " ", ";", " ", "@", " ", ";", " ", "p", "r", "i", "n", "t", " ", "2", ";">>,
   \* var a = "x\ny;
   <<"v", "a", "r", " ", "a", " ", "=", " ", "\"", "x", "\n", "y", ";">>,
   \* print 1 // c\n@;
   <<"p", "r", "i", "n", "t", " ", "1", " ", "/", "/", " ", "c", "\n", "@", ";">>,
   \* @"a";
   <<"@", "\"", "a", "\"", ";">>,
   \* print 1;#
   <<"p", "r", "i", "n", "t", " ", "1", ";", "#">>,
   \* "
   <<"\"">>,
   \* print 1 + "a\n";\n"
   <<"p", "r", "i", "n", "t", " ", "1", " ", "+", " ", "\"", "a", "\n", "\"", ";", "\n", "\"">>,
   \* 1 ~ 2;
   <<"1", " ", "~", " ", "2", ";">>}

\* Blocks that compile without error, as <<text before the block, the block,
\* the locals declared directly in it, text after the block>>.
BlockShapes ==
  {\*  | { var a = 1; var b = 2; print a + b; } | 
   <<<<>>,
     <<"{", " ", "v", "a", "r", " ", "a", " ", "=", " ", "1", ";", " ", "v", "a", "r", " ", "b", " ", "=", " ", "2", ";", " ", "p", "r", "i", "n", "t", " ", "a", " ", "+", " ", "b", ";", " ", "}">>,
     2,
     <<>>>>,
   \* {var x=1;  | {var a=2; {var c=4; print c;} print a;} |  print x; }
   <<<<"{", "v", "a", "r", " ", "x", "=", "1", ";", " ">>,
     <<"{", "v", "a", "r", " ", "a", "=", "2", ";", " ", "{", "v", "a", "r", " ", "c", "=", "4", ";", " ", "p", "r", "i", "n", "t", " ", "c", ";", "}", " ", "p", "r", "i", "n", "t", " ", "a", ";", "}">>,
     1,
     <<" ", "p", "r", "i", "n", "t", " ", "x", ";", " ", "}">>>>,
   \* { var x = 1; var y = 2;  | { } |  }
   <<<<"{", " ", "v", "a", "r", " ", "x", " ", "=", " ", "1", ";", " ", "v", "a", "r", " ", "y", " ", "=", " ", "2", ";", " ">>,
     <<"{", " ", "}">>,
     0,
     <<" ", "}">>>>,
   \* { var x = 1;  | { var a; var b; var c; } |  var d = x; print d; }
   <<<<"{", " ", "v", "a", "r", " ", "x", " ", "=", " ", "1", ";", " ">>,
     <<"{", " ", "v", "a", "r", " ", "a", ";", " ", "v", "a", "r", " ", "b", ";", " ", "v", "a", "r", " ", "c", ";", " ", "}">>,
     3,
     <<" ", "v", "a", "r", " ", "d", " ", "=", " ", "x", ";", " ", "p", "r", "i", "n", "t", " ", "d", ";", " ", "}">>>>,
   \* { { var x;  | { var p = x; } |  } }
   <<<<"{", " ", "{", " ", "v", "a", "r", " ", "x", ";", " ">>,
     <<"{", " ", "v", "a", "r", " ", "p", " ", "=", " ", "x", ";", " ", "}">>,
     1,
     <<" ", "}", " ", "}">>>>,
   \*  | {var a=1;if (a) {var b=2;print b;} else {var c=3;} print a;} | 
   <<<<>>,
     <<"{", "v", "a", "r", " ", "a", "=", "1", ";", "i", "f", " ", "(", "a", ")", " ", "{", "v", "a", "r", " ", "b", "=", "2", ";", "p", "r", "i", "n", "t", " ", "b", ";", "}", " ", "e", "l", "s", "e", " ", "{", "v", "a", "r", " ", "c", "=", "3", ";", "}", " ", "p", "r", "i", "n", "t", " ", "a", ";", "}">>,
     1,
     <<>>>>,
   \* var g=1;  | {var a=g; {var b=a; {var c=b; print c;}}} |  print g;
   <<<<"v", "a", "r", " ", "g", "=", "1", ";", " ">>,
     <<"{", "v", "a", "r", " ", "a", "=", "g", ";", " ", "{", "v", "a", "r", " ", "b", "=", "a", ";", " ", "{", "v", "a", "r", " ", "c", "=", "b", ";", " ", "p", "r", "i", "n", "t", " ", "c", ";", "}", "}", "}">>,
     1,
     <<" ", "p", "r", "i", "n", "t", " ", "g", ";">>>>}

BlockText(q) == q[1] \o q[2] \o q[4]

BlockShapeSources == {BlockText(q) : q \in BlockShapes}

\* Blocks that declare the name of a local of an enclosing block again.
\* { var a = 1; { var a = 2; print a; } print a; }
SrcShadowInner ==
  <<"{", " ", "v", "a", "r", " ", "a", " ", "=", " ", "1", ";", " ", "{", " ", "v", "a", "r", " ", "a", " ", "=", " ", "2", ";", " ", "p", "r", "i", "n", "t", " ", "a", ";", " ", "}", " ", "p", "r", "i", "n", "t", " ", "a", ";", " ", "}">>

\* {var a=1; {var b=2; {var a=3; print a;}} print a;}
SrcShadowTwoOut ==
  <<"{", "v", "a", "r", " ", "a", "=", "1", ";", " ", "{", "v", "a", "r", " ", "b", "=", "2", ";", " ", "{", "v", "a", "r", " ", "a", "=", "3", ";", " ", "p", "r", "i", "n", "t", " ", "a", ";", "}", "}", " ", "p", "r", "i", "n", "t", " ", "a", ";", "}">>

\* A block with an error in it, then two top-level declarations of x.
\* { var a = 1; print ; }\nvar x = 1;\nvar x = 2;\nprint x;
SrcFaultyBlockThenVars ==
  <<"{", " ", "v", "a", "r", " ", "a", " ", "=", " ", "1", ";", " ", "p", "r", "i", "n", "t", " ", ";", " ", "}", "\n", "v", "a", "r", " ", "x", " ", "=", " ", "1", ";", "\n", "v", "a", "r", " ", "x", " ", "=", " ", "2", ";", "\n", "p", "r", "i", "n", "t", " ", "x", ";">>

\* Programs that declare, read and assign locals, the last one ending in a
\* runtime error inside its block.
LocalSources ==
  {\* { var a = 1; var b = 2; a = b; b = a + b; print a; print b; }
   <<"{", " ", "v", "a", "r", " ", "a", " ", "=", " ", "1", ";", " ", "v", "a", "r", " ", "b", " ", "=", " ", "2", ";", " ", "a", " ", "=", " ", "b", ";", " ", "b", " ", "=", " ", "a", " ", "+", " ", "b", ";", " ", "p", "r", "i", "n", "t", " ", "a", ";", " ", "p", "r", "i", "n", "t", " ", "b", ";", " ", "}">>,
   \* var g=1; {var a=g; a=a+1; {var b=a; b=b+g; print b;} g=a;}
   <<"v", "a", "r", " ", "g", "=", "1", ";", " ", "{", "v", "a", "r", " ", "a", "=", "g", ";", " ", "a", "=", "a", "+", "1", ";", " ", "{", "v", "a", "r", " ", "b", "=", "a", ";", " ", "b", "=", "b", "+", "g", ";", " ", "p", "r", "i", "n", "t", " ", "b", ";", "}", " ", "g", "=", "a", ";", "}">>,
   \* {var a="x"; {var b=a+"y"; print b;} var c=a; print c;}
   <<"{", "v", "a", "r", " ", "a", "=", "\"", "x", "\"", ";", " ", "{", "v", "a", "r", " ", "b", "=", "a", "+", "\"", "y", "\"", ";", " ", "p", "r", "i", "n", "t", " ", "b", ";", "}", " ", "v", "a", "r", " ", "c", "=", "a", ";", " ", "p", "r", "i", "n", "t", " ", "c", ";", "}">>,
   \* { var a = 1; print -"s"; print a; }
   <<"{", " ", "v", "a", "r", " ", "a", " ", "=", " ", "1", ";", " ", "p", "r", "i", "n", "t", " ", "-", "\"", "s", "\"", ";", " ", "p", "r", "i", "n", "t", " ", "a", ";", " ", "}">>}

FileSources ==
  ConcatSources \cup MixedAddSources \cup EqualSources \cup {SrcEqualBuilt}
  \cup ArithSources \cup ChainSources \cup UnarySources
  \cup InvalidAssignSources \cup {SrcInvalidAfterAssign} \cup {q[1] : q \in ValidAssignSources}
  \cup RedeclareSources \cup IfShapeSources \cup FaultySources
  \cup LexicalSources \cup BlockShapeSources \cup LocalSources
  \cup {SrcShadowInner, SrcShadowTwoOut, SrcFaultyBlockThenVars}

InitFile ==
  /\ checked \in BOOLEAN
  /\ globals = <<>>
  /\ phase = "idle"
  /\ source = <<>>
  /\ compile_ok = FALSE
  /\ chunk = ChunkNew
  /\ ip = 0
  /\ stack = <<>>
  /\ out = <<>>
  /\ errs = <<>>
  /\ result = "none"
  /\ calls = 0
  /\ executed = 0
  /\ lastop = -1
  /\ globals0 = <<>>
  /\ locals = <<>>
  /\ scope_depth = 0
  /\ pending = {}
  /\ called = NoCall
  /\ scanner = ScannerNew(<<>>)
  /\ tokens = <<>>
  /\ allocated = 0

\* run_file(path), the file read into src.
run_file(src) == calls = 0 /\ InterpretCall(src)

NextFile == (\E src \in FileSources : run_file(src)) \/ Step

SpecFile == InitFile /\ [][NextFile]_vars

\* run is a loop of one thread that nothing suspends: while it has not
\* returned, its next pass is taken.
SpecFileFair == SpecFile /\ WF_vars(Step)

\* ------------------------------------------------------------------------
\* run on chunks that need not come from the compiler: up to MaxOperands
\* pushes, one instruction, and a tail.
\* ------------------------------------------------------------------------

\* The number of values pushed before the instruction.
MaxOperands == 2

\* The constant pool of the chunks: a number, a string (also the name of
\* the global the chunks use), another number.
RawConstants == <<NumberV(F64(1, 1)), new_string(<<"a">>), NumberV(F64(2, 1))>>

\* The instructions that push a number, a string, nil and a boolean.
PushInstrs == {<<OP_CONSTANT, 0>>, <<OP_CONSTANT, 1>>, <<OP_NIL>>, <<OP_TRUE>>}

\* An instruction of every opcode, a byte that is no opcode, and operands
\* that name no constant, no string constant and no stack slot.
RawInstrs ==
  {<<op>> : op \in {OP_NIL, OP_TRUE, OP_FALSE, OP_POP, OP_EQUAL, OP_GREATER, OP_LESS,
                    OP_ADD, OP_SUBTRACT, OP_MULTIPLY, OP_DIVIDE, OP_NOT, OP_NEGATE,
                    OP_PRINT, OP_RETURN, 23}}
  \cup {<<op, 0>> : op \in {OP_CONSTANT, OP_GET_LOCAL, OP_SET_LOCAL, OP_GET_GLOBAL}}
  \cup {<<op, 1>> : op \in {OP_GET_LOCAL, OP_SET_LOCAL, OP_GET_GLOBAL,
                            OP_DEFINE_GLOBAL, OP_SET_GLOBAL}}
  \cup {<<OP_CONSTANT, 3>>, <<OP_JUMP, 0, 0>>, <<OP_JUMP_IF_FALSE, 0, 0>>}

RawTails == {<<>>, <<OP_RETURN>>, <<OP_PRINT, OP_RETURN>>}

PushSeqs == UNION {[1..n -> PushInstrs] : n \in 0..MaxOperands}

\* A chunk with the given code; byte i was emitted for source line i.
RawChunk(code) ==
  [code |-> code, constants |-> RawConstants, lines |-> [i \in 1..Len(code) |-> i]]

RawChunks ==
  {RawChunk(Cat(pushes) \o instr \o tail) :
     pushes \in PushSeqs, instr \in RawInstrs \cup {<<>>}, tail \in RawTails}

\* The global table the run starts with: empty, or with a bound.
RawGlobals == {<<>>, (<<"a">> :> NumberV(F64(2, 1)))}

InitRun ==
  /\ checked \in BOOLEAN
  /\ globals \in RawGlobals
  /\ phase = "idle"
  /\ source = <<>>
  /\ compile_ok = TRUE
  /\ chunk = ChunkNew
  /\ ip = 0
  /\ stack = <<>>
  /\ out = <<>>
  /\ errs = <<>>
  /\ result = "none"
  /\ calls = 0
  /\ executed = 0
  /\ lastop = -1
  /\ globals0 = globals
  /\ locals = <<>>
  /\ scope_depth = 0
  /\ pending = {}
  /\ called = NoCall
  /\ scanner = ScannerNew(<<>>)
  /\ tokens = <<>>
  /\ allocated = 0

\* A call run(chunk, globals), once.
Run(c) ==
  /\ phase = "idle"
  /\ calls = 0
  /\ calls' = 1
  /\ RunStart(c)
  /\ UNCHANGED <<checked, globals, source, compile_ok, out, errs, executed, lastop,
                 globals0, locals, scope_depth,
                 pending, called, scanner,
                 tokens, allocated>>

NextRun == (\E c \in RawChunks : Run(c)) \/ Step

SpecRun == InitRun /\ [][NextRun]_vars

\* ------------------------------------------------------------------------
\* run_file on programs near the limits of the constant pool and of the
\* local list.  Such a text is a long run of like statements and a short
\* rest; compile is taken up where its loop has consumed the run, with the
\* chunk and the parser as the run leaves them.
\* ------------------------------------------------------------------------

\* The text of n expression statements `1;`.
LongText(n) == [j \in 1..(2 * n) |-> IF j % 2 = 1 THEN "1" ELSE ";"]

\* The token a run ends with (its last ';'), as the scanner returns it.
LastToken(text) == next_token([ScannerNew(text) EXCEPT !.pos = Len(text)]).tok

\* What compile has written when its loop has consumed LongText(n): for
\* each statement the value of its literal in the pool, a constant
\* instruction and a pop (the first pop carries the line of the parser's
\* initial token).
ConstantsRun(n) ==
  [text |-> LongText(n),
   chunk |-> [code |-> [j \in 1..(3 * n) |->
                          CASE j % 3 = 1 -> OP_CONSTANT
                            [] j % 3 = 2 -> (j - 2) \div 3
                            [] OTHER -> OP_POP],
              constants |-> [i \in 1..n |->
                               NumberV(ParseNumber(<<LongText(n)[2 * i - 1]>>))],
              lines |-> [j \in 1..(3 * n) |-> IF j = 3 THEN 0 ELSE 1]],
   locals |-> <<>>,
   scope_depth |-> 0]

Digit(d) == <<"0", "1", "2", "3", "4", "5", "6", "7", "8", "9">>[d + 1]

\* The name of the i-th local of a run of declarations (i from 0).
LocalName(i) == <<"a", Digit(i \div 100), Digit((i \div 10) % 10), Digit(i % 10)>>

\* The text of n declarations `var aNNN;`, a block opened before every
\* per-th of them: ten characters for each declaration.
LocalsText(n, per) ==
  [j \in 1..(10 * n) |->
     LET i == (j - 1) \div 10
         k == (j - 1) % 10
     IN CASE k = 0 -> (IF i % per = 0 THEN "{" ELSE " ")
          [] k \in 1..4 -> <<"v", "a", "r", " ">>[k]
          [] k \in 5..8 -> LocalName(i)[k - 4]
          [] OTHER -> ";"]

\* What compile has written when it has consumed LocalsText(n, per): a nil
\* for each declaration, the locals initialized at the depth of their block,
\* and the blocks still open.
LocalsRun(n, per) ==
  [text |-> LocalsText(n, per),
   chunk |-> [code |-> [j \in 1..n |-> OP_NIL],
              constants |-> <<>>,
              lines |-> [j \in 1..n |-> 1]],
   locals |-> [i \in 1..n |->
                 [name |-> [tag |-> "Identifier", lexeme |-> LocalName(i - 1),
                            line |-> 1],
                  depth |-> (i - 1) \div per + 1]],
   scope_depth |-> (n - 1) \div per + 1]

\* The parser when the run w of the text w.text \o rest has been compiled:
\* the consume of the run's last ';' has made it `previous` and scanned the
\* first token of the rest.
ParserAfter(w, rest) ==
  advance([ParserNew(w.text \o rest, w.chunk) EXCEPT
             !.scanner.pos = Len(w.text) + 1,
             !.current = LastToken(w.text),
             !.locals = w.locals,
             !.scope_depth = w.scope_depth])

RECURSIVE ResumeBlocks(_, _)
\* The calls that are open after the run, innermost first: for each of the
\* k open blocks, the loop of block() and then statement's end_scope.
ResumeBlocks(p, k) ==
  IF k = 0 THEN p
  ELSE Try(block(p), LAMBDA b : ResumeBlocks(end_scope(b), k - 1))

\* compile(w.text \o rest, chunk) from the end of the run w on.
compile_after(w, rest, overflow_checks) ==
  CompileEnd(CompileLoopDeclared(ResumeBlocks(ParserAfter(w, rest), w.scope_depth),
                                 TRUE, <<>>),
             overflow_checks)

\* Rests of a text after a run of `1;` statements, each with the number of
\* constant-pool entries its compilation asks for (number literals, string
\* literals and the names of globals).
ConstantRests ==
  {\* (nothing)
   <<<<>>, 0>>,
   \* 2;
   <<<<"2", ";">>, 1>>,
   \* "s";
   <<<<"\"", "s", "\"", ";">>, 1>>,
   \* g;
   <<<<"g", ";">>, 1>>,
   \* var g;
   <<<<"v", "a", "r", " ", "g", ";">>, 1>>,
   \* true;
   <<<<"t", "r", "u", "e", ";">>, 0>>,
   \* var g = 2;
   <<<<"v", "a", "r", " ", "g", " ", "=", " ", "2", ";">>, 2>>,
   \* 2; "s";
   <<<<"2", ";", " ", "\"", "s", "\"", ";">>, 2>>,
   \* print 2 + 3;
   <<<<"p", "r", "i", "n", "t", " ", "2", " ", "+", " ", "3", ";">>, 2>>,
   \* g = 2;
   <<<<"g", " ", "=", " ", "2", ";">>, 2>>,
   \* 2; "s"; var g;
   <<<<"2", ";", " ", "\"", "s", "\"", ";", " ", "v", "a", "r", " ", "g", ";">>, 3>>,
   \* print "s" + "t" + "u";
   <<<<"p", "r", "i", "n", "t", " ", "\"", "s", "\"", " ", "+", " ", "\"", "t", "\"", " ", "+", " ", "\"", "u", "\"", ";">>, 3>>}

\* A run short enough for compile to be evaluated on the whole text.
ShortRun == 20

\* The lengths of the runs of `1;`: ShortRun, and the three that leave two,
\* one and no free entry in the pool.
ConstantCounts == {ShortRun, MAX_CONSTANTS - 2, MAX_CONSTANTS - 1, MAX_CONSTANTS}

InitLong ==
  /\ checked \in BOOLEAN
  /\ globals = <<>>
  /\ phase = "idle"
  /\ source = <<>>
  /\ compile_ok = FALSE
  /\ chunk = ChunkNew
  /\ ip = 0
  /\ stack = <<>>
  /\ out = <<>>
  /\ errs = <<>>
  /\ result = "none"
  /\ calls = 0
  /\ executed = 0
  /\ lastop = -1
  /\ globals0 = <<>>
  /\ locals = <<>>
  /\ scope_depth = 0
  /\ pending = {}
  /\ called = NoCall
  /\ scanner = ScannerNew(<<>>)
  /\ tokens = <<>>
  /\ allocated = 0

\* Rests of a text after a run of local declarations in three nested
\* blocks, each with the number of locals it declares that are live at the
\* same time, and the locals its get and set instructions name in order: an
\* <<"abs", k>> is the k-th local of the run, a <<"new", j>> the j-th local
\* the rest declares.
LocalRests ==
  {\* }}}
   [text |-> <<"}", "}", "}">>,
    live |-> 0, refs |-> <<>>],
   \* var x; }}}
   [text |-> <<" ", "v", "a", "r", " ", "x", ";", " ", "}", "}", "}">>,
    live |-> 1, refs |-> <<>>],
   \* var x; var y; }}}
   [text |-> <<" ", "v", "a", "r", " ", "x", ";", " ", "v", "a", "r", " ", "y", ";", " ", "}", "}", "}">>,
    live |-> 2, refs |-> <<>>],
   \* { var x; } { var y; } }}}
   [text |-> <<" ", "{", " ", "v", "a", "r", " ", "x", ";", " ", "}", " ", "{", " ", "v", "a", "r", " ", "y", ";", " ", "}", " ", "}", "}", "}">>,
    live |-> 1, refs |-> <<>>],
   \* { var x; { var y; } } }}}
   [text |-> <<" ", "{", " ", "v", "a", "r", " ", "x", ";", " ", "{", " ", "v", "a", "r", " ", "y", ";", " ", "}", " ", "}", " ", "}", "}", "}">>,
    live |-> 2, refs |-> <<>>],
   \* a000 = 7; print a000; }}}
   [text |-> <<" ", "a", "0", "0", "0", " ", "=", " ", "7", ";", " ", "p", "r", "i", "n", "t", " ", "a", "0", "0", "0", ";", " ", "}", "}", "}">>,
    live |-> 0, refs |-> <<<<"abs", 0>>, <<"abs", 0>>>>],
   \* a252 = 7; print a252; print a251; }}}
   [text |-> <<" ", "a", "2", "5", "2", " ", "=", " ", "7", ";", " ", "p", "r", "i", "n", "t", " ", "a", "2", "5", "2", ";", " ", "p", "r", "i", "n", "t", " ", "a", "2", "5", "1", ";", " ", "}", "}", "}">>,
    live |-> 0, refs |-> <<<<"abs", 252>>, <<"abs", 252>>, <<"abs", 251>>>>],
   \* var x = a001; print x; x = 2; }}}
   [text |-> <<" ", "v", "a", "r", " ", "x", " ", "=", " ", "a", "0", "0", "1", ";", " ", "p", "r", "i", "n", "t", " ", "x", ";", " ", "x", " ", "=", " ", "2", ";", " ", "}", "}", "}">>,
    live |-> 1, refs |-> <<<<"abs", 1>>, <<"new", 0>>, <<"new", 0>>>>],
   \* var x; { var y = x; print y; } }}}
   [text |-> <<" ", "v", "a", "r", " ", "x", ";", " ", "{", " ", "v", "a", "r", " ", "y", " ", "=", " ", "x", ";", " ", "p", "r", "i", "n", "t", " ", "y", ";", " ", "}", " ", "}", "}", "}">>,
    live |-> 2, refs |-> <<<<"new", 0>>, <<"new", 1>>>>]}

\* The runs of local declarations, by number of declarations and
\* declarations for each block: each run leaves three blocks open.
LocalShapes ==
  {<<ShortRun, 7>>, <<MAX_LOCALS - 2, 100>>, <<MAX_LOCALS - 1, 100>>, <<MAX_LOCALS, 100>>}

\* s is the beginning of t.
IsPrefix(s, t) == Len(s) <= Len(t) /\ SubSeq(t, 1, Len(s)) = s

\* The texts of the files: a run and a rest.
LongFiles ==
  {LongText(n) \o q[1] : n \in ConstantCounts, q \in ConstantRests}
  \cup {LocalsText(np[1], np[2]) \o q.text : np \in LocalShapes, q \in LocalRests}

\* The shape of the run of declarations a text begins with: the longest.
ShapeOf(text) ==
  CHOOSE np \in LocalShapes :
    /\ IsPrefix(LocalsText(np[1], np[2]), text)
    /\ \A mp \in LocalShapes :
         IsPrefix(LocalsText(mp[1], mp[2]), text) => mp[1] <= np[1]

\* The run a text begins with: the longest of the runs of `1;`, or of the
\* runs of declarations when the text opens a block.
RunOf(text) ==
  IF Head(text) = "{"
  THEN LocalsRun(ShapeOf(text)[1], ShapeOf(text)[2])
  ELSE ConstantsRun(CHOOSE n \in ConstantCounts :
                      /\ IsPrefix(LongText(n), text)
                      /\ \A m \in ConstantCounts :
                           IsPrefix(LongText(m), text) => m <= n)

\* What follows the run in the text.
RestOf(text) == SubSeq(text, Len(RunOf(text).text) + 1, Len(text))

\* fs::read_to_string(path) in run_file: the text of the file.
read_to_string(text) ==
  /\ calls = 0
  /\ source = <<>>
  /\ source' = text
  /\ UNCHANGED <<checked, globals, phase, compile_ok, chunk, ip, stack, out, errs,
                 result, calls, executed, lastop, globals0, locals, scope_depth,
                 pending, called, scanner,
                 tokens, allocated>>

\* The interpret(&source, &mut globals) of run_file, the compile of the run
\* taken as done.
interpret_long ==
  /\ calls = 0
  /\ source # <<>>
  /\ Interpreted(source, compile_after(RunOf(source), RestOf(source), checked))

NextLong ==
  \/ \E text \in LongFiles : read_to_string(text)
  \/ interpret_long
  \/ Step

SpecLong == InitLong /\ [][NextLong]_vars

\* ------------------------------------------------------------------------
\* The methods of Chunk, called one after another as the compiler calls
\* them: emit and emit_constant with the line of the token at hand,
\* emit_jump and later patch_jump with an offset emit_jump returned.
\* ------------------------------------------------------------------------

\* The number of Chunk method calls in one history.
MaxChunkCalls == 4

\* The length of the short run of emit calls.
ShortEmits == 3

\* The code of a history grows to MAX_JUMP + MaxExtra bytes at most.
MaxExtra == 5

\* n calls of emit(byte, line) in a row.
EmitRun(c, n, byte, line) ==
  [c EXCEPT !.code = @ \o [j \in 1..n |-> byte],
            !.lines = @ \o [j \in 1..n |-> line]]

\* The chunk is new, or it is the chunk of a program whose constants have
\* filled the pool.
InitChunk ==
  /\ checked \in BOOLEAN
  /\ globals = <<>>
  /\ phase = "idle"
  /\ source = <<>>
  /\ compile_ok = TRUE
  /\ chunk \in {ChunkNew, ConstantsRun(MAX_CONSTANTS).chunk}
  /\ ip = 0
  /\ stack = <<>>
  /\ out = <<>>
  /\ errs = <<>>
  /\ result = "none"
  /\ calls = 0
  /\ executed = 0
  /\ lastop = -1
  /\ globals0 = globals
  /\ locals = <<>>
  /\ scope_depth = 0
  /\ pending = {}
  /\ called = NoCall
  /\ scanner = ScannerNew(<<>>)
  /\ tokens = <<>>
  /\ allocated = 0

ChunkCall ==
  /\ calls < MaxChunkCalls
  /\ calls' = calls + 1
  /\ UNCHANGED <<checked, globals, phase, source, compile_ok, ip, stack, out,
                 errs, result, executed, lastop, globals0, locals, scope_depth,
                 scanner, tokens, allocated>>

\* chunk.emit(byte, line)
Emit(byte) ==
  /\ ChunkCall
  /\ chunk' = emit(chunk, byte, calls + 1)
  /\ Len(chunk'.code) <= MAX_JUMP + MaxExtra
  /\ called' = [name |-> "emit", arg |-> byte, ok |-> TRUE, message |-> ""]
  /\ UNCHANGED pending

\* chunk.emit(byte, line), n times
Emits(n, byte) ==
  /\ ChunkCall
  /\ called.name = "emit_jump"
  /\ Len(chunk.code) + n <= MAX_JUMP + MaxExtra
  /\ chunk' = EmitRun(chunk, n, byte, calls + 1)
  /\ called' = [name |-> "emits", arg |-> n, ok |-> TRUE, message |-> ""]
  /\ UNCHANGED pending

\* chunk.emit_constant(value, line)
EmitConstant ==
  /\ ChunkCall
  /\ \E r \in {emit_constant(chunk, NumberV(F64(calls + 1, 1)), calls + 1)} :
       /\ chunk' = r.chunk
       /\ Len(chunk'.code) <= MAX_JUMP + MaxExtra
       /\ called' = [name |-> "emit_constant", arg |-> calls + 1, ok |-> r.ok,
                     message |-> r.message]
  /\ UNCHANGED pending

\* chunk.emit_jump(instruction, line)
EmitJump(instruction) ==
  /\ ChunkCall
  /\ \E r \in {emit_jump(chunk, instruction, calls + 1)} :
       /\ chunk' = r.chunk
       /\ Len(chunk'.code) <= MAX_JUMP + MaxExtra
       /\ pending' = pending \cup {r.offset}
       /\ called' = [name |-> "emit_jump", arg |-> r.offset, ok |-> TRUE,
                     message |-> ""]

\* chunk.patch_jump(offset), offset being one emit_jump returned
PatchJump(offset) ==
  /\ ChunkCall
  /\ \E r \in {patch_jump(chunk, offset)} :
       /\ chunk' = r.chunk
       /\ pending' = pending \ {offset}
       /\ called' = [name |-> "patch_jump", arg |-> offset, ok |-> r.ok,
                     message |-> r.message]

NextChunk ==
  \/ Emit(OP_POP)
  \/ \E n \in {ShortEmits, MAX_JUMP, MAX_JUMP + 1} : Emits(n, OP_POP)
  \/ EmitConstant
  \/ \E instruction \in {OP_JUMP, OP_JUMP_IF_FALSE} : EmitJump(instruction)
  \/ \E offset \in pending : PatchJump(offset)

SpecChunk == InitChunk /\ [][NextChunk]_vars

\* ------------------------------------------------------------------------
\* The scanner alone: Scanner::new on a text, and next_token called again
\* and again, as Parser::advance calls it.
\* ------------------------------------------------------------------------

\* The calls of next_token made beyond the length of the text.
MaxEofCalls == 3

\* The texts scanned: newlines in whitespace, at the end of a comment, inside
\* a string and after an unrecognized character; one- and two-character
\* operators; numbers with and without a fraction; strings left open.
ScanSources ==
  {\* 
   <<>>,
   \*   
   <<" ", " ">>,
   \* 1\n2
   <<"1", "\n", "2">>,
   \* // c\n1
   <<"/", "/", " ", "c", "\n", "1">>,
   \* "a\nb" 1
   <<"\"", "a", "\n", "b", "\"", " ", "1">>,
   \* @\n1
   <<"@", "\n", "1">>,
   \* @@ 1
   <<"@", "@", " ", "1">>,
   \* a != b
   <<"a", " ", "!", "=", " ", "b">>,
   \* 1.5 .2 3.
   <<"1", ".", "5", " ", ".", "2", " ", "3", ".">>,
   \* "ab
   <<"\"", "a", "b">>,
   \* x #
   <<"x", " ", "#">>,
   \* // only
   <<"/", "/", " ", "o", "n", "l", "y">>,
   \* <= >= !
   <<"<", "=", " ", ">", "=", " ", "!">>,
   \* @
   <<"@">>,
   \* print a1;
   <<"p", "r", "i", "n", "t", " ", "a", "1", ";">>,
   \* a\r\n\tb
   <<"a", "\r", "\n", "\t", "b">>,
   \* 1 // c
   <<"1", " ", "/", "/", " ", "c">>,
   \* / /
   <<"/", " ", "/">>,
   \* ""
   <<"\"", "\"">>,
   \* "a\n
   <<"\"", "a", "\n">>,
   \* \n\n"\n"\n
   <<"\n", "\n", "\"", "\n", "\"", "\n">>,
   \* #\n\n2
   <<"#", "\n", "\n", "2">>,
   \* = == ! !=
   <<"=", " ", "=", "=", " ", "!", " ", "!", "=">>,
   \* {(,)}-+*
   <<"{", "(", ",", ")", "}", "-", "+", "*">>,
   \* if_ else
   <<"i", "f", "_", " ", "e", "l", "s", "e">>,
   \* 1//\n//\n2
   <<"1", "/", "/", "\n", "/", "/", "\n", "2">>}

InitScan ==
  /\ checked \in BOOLEAN
  /\ globals = <<>>
  /\ phase = "idle"
  /\ source \in ScanSources
  /\ compile_ok = TRUE
  /\ chunk = ChunkNew
  /\ ip = 0
  /\ stack = <<>>
  /\ out = <<>>
  /\ errs = <<>>
  /\ result = "none"
  /\ calls = 0
  /\ executed = 0
  /\ lastop = -1
  /\ globals0 = globals
  /\ locals = <<>>
  /\ scope_depth = 0
  /\ pending = {}
  /\ called = NoCall
  /\ scanner = ScannerNew(source)
  /\ tokens = <<>>
  /\ allocated = 0

\* scanner.next_token()
NextToken ==
  /\ Len(tokens) < Len(source) + MaxEofCalls
  /\ \E r \in {next_token(scanner)} :
       /\ scanner' = r.sc
       /\ tokens' = Append(tokens, r.tok)
  /\ calls' = calls + 1
  /\ UNCHANGED <<checked, globals, phase, source, compile_ok, chunk, ip, stack,
                 out, errs, result, executed, lastop, globals0, locals,
                 scope_depth, pending, called, allocated>>

NextScan == NextToken

SpecScan == InitScan /\ [][NextScan]_vars

\* ------------------------------------------------------------------------
\* repl in main.rs: one global table, made empty, and one interpret call on
\* it for every line read.
\* ------------------------------------------------------------------------

\* The number of lines repl reads in one behaviour.
MaxLines == 3

\* The lines read: a define, a set, a define followed by a Runtime error, a
\* get, a line that does not compile, a get of the other name, a define of
\* a bound name.
ReplLines ==
  {\* var a = 1;
   <<"v", "a", "r", " ", "a", " ", "=", " ", "1", ";">>,
   \* a = 2;
   <<"a", " ", "=", " ", "2", ";">>,
   \* var b = "s"; print -b;
   <<"v", "a", "r", " ", "b", " ", "=", " ", "\"", "s", "\"", ";", " ", "p", "r", "i", "n", "t", " ", "-", "b", ";">>,
   \* print a;
   <<"p", "r", "i", "n", "t", " ", "a", ";">>,
   \* print ;
   <<"p", "r", "i", "n", "t", " ", ";">>,
   \* print b;
   <<"p", "r", "i", "n", "t", " ", "b", ";">>,
   \* var a = "t";
   <<"v", "a", "r", " ", "a", " ", "=", " ", "\"", "t", "\"", ";">>}

InitRepl ==
  /\ checked \in BOOLEAN
  /\ globals = <<>>
  /\ phase = "idle"
  /\ source = <<>>
  /\ compile_ok = TRUE
  /\ chunk = ChunkNew
  /\ ip = 0
  /\ stack = <<>>
  /\ out = <<>>
  /\ errs = <<>>
  /\ result = "none"
  /\ calls = 0
  /\ executed = 0
  /\ lastop = -1
  /\ globals0 = globals
  /\ locals = <<>>
  /\ scope_depth = 0
  /\ pending = {}
  /\ called = NoCall
  /\ scanner = ScannerNew(<<>>)
  /\ tokens = <<>>
  /\ allocated = 0

\* One round of the loop of repl: vm::interpret(&line, &mut globals).
repl(line) == calls < MaxLines /\ InterpretCall(line)

NextRepl == (\E line \in ReplLines : repl(line)) \/ Step

SpecRepl == InitRepl /\ [][NextRepl]_vars

\* ------------------------------------------------------------------------
\* Properties
\* ------------------------------------------------------------------------

\* The call made last is over.
Finished == calls > 0 /\ phase # "running"

\* The opcode the next pass through the loop of run dispatches, -1 when
\* there is none.
NextOp ==
  IF phase = "running" /\ ~disassemble_instruction(chunk, ip, checked).panic
  THEN At(chunk.code, ip)
  ELSE -1

\* The name the operand of the instruction at ip denotes.
NextKey == At(chunk.constants, At(chunk.code, ip + 1)).s

\* The literals that are neither nil nor false.
Truthy(lit) == lit \notin {LitFalse, LitNil}

\* C1: running a compiled if/else executes exactly one branch, the then
\* branch for a truthy condition and the else branch (if any) otherwise;
\* the run ends successfully with the operand stack as deep as before.
C1_IfRunsOneBranch ==
  \A c \in Conditions :
    /\ (source = IfElseSrc(c) /\ compile_ok /\ Finished) =>
         /\ result = "Ok"
         /\ stack = <<>>
         /\ out = <<IF Truthy(c) THEN LitValue(LitX) ELSE LitValue(LitY)>>
    /\ (source = IfSrc(c) /\ compile_ok /\ Finished) =>
         /\ result = "Ok"
         /\ stack = <<>>
         /\ out = IF Truthy(c) THEN <<LitValue(LitX), LitValue(LitY)>>
                  ELSE <<LitValue(LitY)>>

\* C2: the run of a successfully compiled chunk never ends in the
\* unknown-opcode fault.
C2_NoUnknownOpFault ==
  ~(compile_ok /\ result = "Runtime" /\ errs # <<>> /\ Last(errs) = UnknownOp)

\* C3: a block's declaration of a name that is also a global shadows the
\* global inside the block only: reads inside the block after the
\* declaration yield the local's value, reads after the block yield the
\* global's value, which the block has not changed.
C3_BlockLocalShadowsGlobal ==
  \A g, l \in ShadowValues :
    /\ (source = ShadowSrc(g, l) /\ Finished) =>
         /\ result = "Ok"
         /\ out = <<LitValue(l), LitValue(g)>>
         /\ globals[<<"a">>] = LitValue(g)
    /\ (source = ShadowSrc2(g, l) /\ Finished) =>
         /\ result = "Ok"
         /\ out = <<LitValue(l), LitValue(LitTwo), LitValue(l), LitValue(g)>>
         /\ globals[<<"a">>] = LitValue(g)
         /\ <<"b">> \in DOMAIN globals => globals[<<"b">>] = globals0[<<"b">>]

C3_Shadowed ==
  /\ source = ShadowSrc(LitOuter, LitInner)
  /\ Finished
  /\ out = <<LitValue(LitInner), LitValue(LitOuter)>>

\* C4: a block-local's own name inside its initializer is a Compile error,
\* with or without a global or another local around it: interpret returns
\* Compile and no instruction is executed.
C4_OwnInitializerIsCompileError ==
  (source \in SelfInitSources /\ calls > 0) =>
    /\ result = "Compile"
    /\ phase = "idle"
    /\ errs # <<>>
    /\ executed = 0
    /\ out = <<>>
    /\ globals = globals0
    /\ \A p \in SelfInitPrefixes, i \in SelfInitInners, e \in SelfInits :
         source = SelfInitSrc(p, i, e) =>
           errs[1].message = "Cannot read local variable in its own initializer."

C4_OwnInitializerRejected ==
  /\ source = SelfInitSrc(Cat(<<TxtVarA, LitOne, TxtSemi, TxtNl>>), <<>>, <<"a">>)
  /\ result = "Compile"
  /\ <<"a">> \in DOMAIN globals0

\* C5: global set succeeds exactly when the name is bound: then the
\* binding becomes the value on top of the stack, which stays there;
\* otherwise the run ends with the Runtime error "Undefined variable
\* '<name>'." and the table is left as it was.
C5_GlobalSetIffBound ==
  [][NextOp = OP_SET_GLOBAL =>
       IF NextKey \in DOMAIN globals
       THEN /\ phase' = "running"
            /\ stack' = stack
            /\ globals' = [globals EXCEPT ![NextKey] = Last(stack)]
            /\ errs' = errs
       ELSE /\ phase' = "idle"
            /\ result' = "Runtime"
            /\ globals' = globals
            /\ errs' = Append(errs, UndefinedVariable(NextKey))]_vars

C5_SetOfUnboundName ==
  /\ lastop = OP_SET_GLOBAL
  /\ result = "Runtime"
  /\ Last(errs) = UndefinedVariable(<<"a">>)
  /\ DOMAIN globals = {<<"b">>}

\* C6: global define binds the name to the value on top of the stack
\* whether or not the name is bound, then pops that value; after several
\* top-level declarations of one name a read yields the last one's value.
C6_GlobalDefineRebinds ==
  /\ [][NextOp = OP_DEFINE_GLOBAL =>
          /\ phase' = "running"
          /\ globals' = (NextKey :> Last(stack)) @@ globals
          /\ stack' = Front(stack)
          /\ errs' = errs]_vars
  /\ []((Finished /\ source = SrcGlobalRedefine) =>
          (result = "Ok" /\ out = <<NumberV(F64(2, 1))>>))
  /\ []((Finished /\ source = SrcGlobalRedefineNil) =>
          (result = "Ok" /\ out = <<NilV>>))
  /\ []((Finished /\ source = SrcGlobalRedefineSelf) =>
          (result = "Ok" /\ out = <<NumberV(F64(4, 1))>>))

C6_Redefined ==
  /\ source = SrcGlobalRedefine
  /\ lastop = OP_DEFINE_GLOBAL
  /\ executed = 4
  /\ globals[<<"a">>] = NumberV(F64(2, 1))

\* C7: interpret returns Compile exactly when compile reported failure, and
\* then no instruction has executed, nothing was printed and the caller's
\* table is unchanged; Runtime is returned only after execution started.
C7_CompileErrorIffCompileFailed ==
  calls > 0 =>
    /\ (result = "Compile") <=> (~compile_ok /\ phase # "dead")
    /\ result = "Compile" =>
         /\ phase = "idle"
         /\ errs # <<>>
         /\ executed = 0
         /\ lastop = -1
         /\ out = <<>>
         /\ globals = globals0
    /\ result = "Runtime" => (compile_ok /\ executed > 0)

C7_CompileErrorAfterValidStatements ==
  /\ source = SrcErrThenPrint
  /\ result = "Compile"
  /\ globals0 # <<>>

\* C8: the first runtime fault ends the run: the faulting instruction
\* prints nothing and binds nothing, nothing happens after it, and what
\* was printed and bound before it stays.
C8_FirstFaultIsTerminal ==
  /\ [][(phase = "running" /\ errs' # errs) =>
          /\ phase' = "idle"
          /\ result' = "Runtime"
          /\ errs' = Append(errs, Last(errs'))
          /\ out' = out
          /\ globals' = globals
          /\ executed' = executed + 1]_vars
  /\ [][(result = "Runtime" /\ calls' = calls) =>
          UNCHANGED <<out, errs, globals, executed, result>>]_vars
  /\ []((phase = "running") => (result = "none" /\ errs = <<>>))
  /\ []((Finished /\ source = SrcFaultNegate) =>
          (result = "Runtime" /\ out = <<NumberV(F64(1, 1))>> /\ globals = globals0))
  /\ []((Finished /\ source = SrcFaultAdd) =>
          /\ result = "Runtime"
          /\ out = <<>>
          /\ globals = (<<"a">> :> NumberV(F64(1, 1))) @@ globals0)
  /\ []((Finished /\ source = SrcFaultLess) =>
          /\ result = "Runtime"
          /\ out = <<BoolV(TRUE)>>
          /\ globals = (<<"b">> :> NumberV(F64(3, 1))) @@ globals0)

C8_FaultAfterPrintAndBinding ==
  /\ source = SrcFaultLess
  /\ result = "Runtime"
  /\ out = <<BoolV(TRUE)>>
  /\ globals[<<"b">>] = NumberV(F64(3, 1))

\* The operands an instruction takes from the stack.
Needs(op) ==
  CASE op \in {OP_POP, OP_PRINT, OP_NOT, OP_NEGATE, OP_DEFINE_GLOBAL, OP_SET_LOCAL} -> 1
    [] op \in {OP_EQUAL, OP_GREATER, OP_LESS, OP_ADD, OP_SUBTRACT, OP_MULTIPLY,
               OP_DIVIDE} -> 2
    [] OTHER -> 0

\* C9: in any chunk an instruction that needs more operands than the stack
\* holds ends the run with the Runtime error and no other outcome.
C9_UnderflowIsRuntimeError ==
  [][(NextOp # -1 /\ Len(stack) < Needs(NextOp)) =>
       (phase' = "idle" /\ result' = "Runtime")]_vars

\* The six binary instructions + - * / > <.
BinaryOps == {OP_ADD, OP_SUBTRACT, OP_MULTIPLY, OP_DIVIDE, OP_GREATER, OP_LESS}

\* C10: a binary instruction replaces its two operands by a result only
\* when both are numbers or, for + only, both are strings; for any other
\* kinds the run ends with a Runtime error and nothing is pushed.
C10_BinaryOperandKinds ==
  [][(NextOp \in BinaryOps /\ Len(stack) >= 2) =>
       IF is_number(peek(stack, 1)) /\ is_number(peek(stack, 0))
       THEN /\ phase' = "running"
            /\ Len(stack') = Len(stack) - 1
            /\ Front(stack') = SubSeq(stack, 1, Len(stack) - 2)
            /\ Last(stack').tag = (IF NextOp \in {OP_GREATER, OP_LESS} THEN "Bool"
                                   ELSE "Number")
            /\ errs' = errs
       ELSE IF NextOp = OP_ADD /\ is_string(peek(stack, 1)) /\ is_string(peek(stack, 0))
       THEN /\ phase' = "running"
            /\ stack' = Append(SubSeq(stack, 1, Len(stack) - 2),
                               new_string(peek(stack, 1).s \o peek(stack, 0).s))
            /\ errs' = errs
       ELSE /\ phase' = "idle"
            /\ result' = "Runtime"
            /\ stack' = stack
            /\ Len(errs') = Len(errs) + 1]_vars

C10_MixedOperandsRejected ==
  /\ lastop = OP_LESS
  /\ result = "Runtime"
  /\ Len(stack) = 2
  /\ is_number(stack[1])
  /\ is_string(stack[2])

\* The next instruction is a binary instruction or a negate whose operands
\* are on the stack and of a kind it does not take.
WrongKinds ==
  \/ /\ NextOp \in BinaryOps
     /\ Len(stack) >= 2
     /\ ~(is_number(peek(stack, 1)) /\ is_number(peek(stack, 0)))
     /\ ~(NextOp = OP_ADD /\ is_string(peek(stack, 1)) /\ is_string(peek(stack, 0)))
  \/ /\ NextOp = OP_NEGATE
     /\ Len(stack) >= 1
     /\ ~is_number(peek(stack, 0))

\* C11: the Runtime error of a binary instruction or a negate on operands
\* of the wrong kind names the source line the line table records for the
\* instruction.
C11_WrongKindErrorNamesLine ==
  [][WrongKinds =>
       /\ result' = "Runtime"
       /\ Last(errs').text \in {"[line {}] operands must be numbers",
                                "[line {}] operand must be a number"}
       /\ Last(errs').line = At(chunk.lines, ip)]_vars

\* C12: adding two strings yields a new string, the text of the operand
\* pushed first followed by the text of the other, and leaves both
\* operands as they were; a string and a number in either order is a
\* Runtime error.
C12_StringAddition ==
  /\ \A l, r \in ConcatValues :
       (source = ConcatSrc(l, r) /\ Finished) =>
         /\ result = "Ok"
         /\ out = <<new_string(LitValue(l).s \o LitValue(r).s), LitValue(l), LitValue(r)>>
         /\ globals[<<"a">>] = LitValue(l)
         /\ globals[<<"b">>] = LitValue(r)
  /\ \A q \in MixedAddPairs :
       (source = MixedAddSrc(q[1], q[2]) /\ Finished) =>
         /\ result = "Runtime"
         /\ out = <<LitValue(LitTwo)>>
         /\ errs = <<OperandsMustBeNumbers(2)>>

C12_Concatenated ==
  /\ source = ConcatSrc(LitX, LitY)
  /\ Finished
  /\ out = <<new_string(<<"x", "y">>), new_string(<<"x">>), new_string(<<"y">>)>>

\* C13: the equality instruction replaces its two operands by true exactly
\* when they are of one kind and equal in content, two string objects of
\* the same characters included, and by false otherwise; it raises no
\* error for operands of different kinds.
C13_EqualityIsStructural ==
  /\ \A l, r \in EqualValues :
       (source = EqualSrc(l, r) /\ Finished) =>
         /\ result = "Ok"
         /\ errs = <<>>
         /\ stack = <<>>
         /\ out = <<BoolV(l = r)>>
  /\ (source = SrcEqualBuilt /\ Finished) =>
       (result = "Ok" /\ out = <<BoolV(TRUE)>>)
  /\ (NextOp = OP_EQUAL /\ source \in EqualSources) => Len(stack) = 2

C13_DistinctContentsUnequal ==
  /\ source = EqualSrc(LitX, LitY)
  /\ Finished
  /\ out = <<BoolV(FALSE)>>

\* The value of a op b.
ArithApply(op, a, b) ==
  CASE op = "+" -> F64Add(a, b)
    [] op = "-" -> F64Sub(a, b)
    [] op = "*" -> F64Mul(a, b)
    [] OTHER -> F64Div(a, b)

RECURSIVE ArithValue(_, _, _, _, _)
\* The value of 8 <ops[1]> 3 <ops[2]> ... by the usual rules: the products
\* and quotients are folded from the left into terms, and the terms from
\* the left into the sum.  sum is the sum so far, held the + or - that
\* joins the term to it, term the term so far, i the next operator.
ArithValue(ops, sum, held, term, i) ==
  IF i > Len(ops) THEN ArithApply(held, sum, term)
  ELSE IF ops[i] \in {"*", "/"}
  THEN ArithValue(ops, sum, held, ArithApply(ops[i], term, ArithNums[i + 1]), i + 1)
  ELSE ArithValue(ops, ArithApply(held, sum, term), ops[i], ArithNums[i + 1], i + 1)

\* C14: the code compiled for an expression of number literals,
\* parentheses and + - * / evaluates to its value by the usual rules: *
\* and / bind tighter than + and -, equal levels group from the left, a
\* parenthesised expression is a unit.
C14_ArithmeticPrecedence ==
  /\ \A ops \in ArithOpSeqs :
       (source = ArithFlatSrc(ops) /\ Finished) =>
         /\ result = "Ok"
         /\ out = <<NumberV(ArithValue(ops, F64(0, 1), "+", ArithNums[1], 1))>>
  /\ \A o1, o2 \in ArithOps :
       /\ (source = ArithLeftSrc(o1, o2) /\ Finished) =>
            /\ result = "Ok"
            /\ out = <<NumberV(ArithApply(o2, ArithApply(o1, ArithNums[1], ArithNums[2]),
                                          ArithNums[3]))>>
       /\ (source = ArithRightSrc(o1, o2) /\ Finished) =>
            /\ result = "Ok"
            /\ out = <<NumberV(ArithApply(o1, ArithNums[1],
                                          ArithApply(o2, ArithNums[2], ArithNums[3])))>>

C14_ProductBeforeSum ==
  /\ source = ArithFlatSrc(<<"-", "*", "+">>)
  /\ Finished
  /\ out = <<NumberV(F64(7, 1))>>

\* C15: every binary operator parses its right operand one level above
\* its own, so a chain of one operator groups from the left: the code of
\* `1 o 2 o 3` is the code of `(1 o 2) o 3`, and `1 == 2 == false` is
\* (1 == 2) == false, which is true.
C15_ChainsGroupLeft ==
  /\ \A o \in ChainOps :
       (source = ChainSrc(o) /\ calls > 0) =>
         /\ compile_ok
         /\ chunk.code = compile(ChainLeftSrc(o), ChunkNew, FALSE).chunk.code
  /\ (source = SrcChainEqualFalse /\ Finished) =>
       (result = "Ok" /\ out = <<BoolV(TRUE)>>)

\* C16: the operand of a prefix - or ! never includes a following binary
\* operator: the code of `-1 o 2` is the code of `(-1) o 2`, the negate or
\* not coming before the instruction of o, and `!1 * 2` multiplies false
\* by 2, a Runtime error.
C16_UnaryBindsTightest ==
  /\ \A u \in UnaryOps, o \in ChainOps :
       (source = UnarySrc(u, o) /\ calls > 0) =>
         /\ compile_ok
         /\ chunk.code = compile(UnaryLeftSrc(u, o), ChunkNew, FALSE).chunk.code
  /\ (source = UnarySrc(<<"!">>, <<"*">>) /\ Finished) =>
       (result = "Runtime" /\ out = <<>>)

\* The set instructions of the chunk.
SetInstructions ==
  {i \in 1..Len(OpcodesFrom(chunk, 0)) :
     OpcodesFrom(chunk, 0)[i] \in {OP_SET_GLOBAL, OP_SET_LOCAL}}

\* C17: an `=` is an assignment only right after an identifier in prefix
\* position of an expression parsed at assignment precedence; after any
\* other left-hand form compile reports "Invalid assignment target.",
\* fails, and emits no set instruction.
C17_InvalidAssignmentTarget ==
  /\ (source \in InvalidAssignSources /\ calls > 0) =>
       /\ result = "Compile"
       /\ errs[1].message = "Invalid assignment target."
       /\ SetInstructions = {}
  /\ (source = SrcInvalidAfterAssign /\ calls > 0) =>
       /\ result = "Compile"
       /\ errs[1].message = "Invalid assignment target."
       /\ Cardinality(SetInstructions) = 1
  /\ \A q \in ValidAssignSources :
       (source = q[1] /\ calls > 0) =>
         /\ compile_ok
         /\ Cardinality(SetInstructions) = q[2]

C17_ParenthesisedTargetRejected ==
  /\ source = <<"(", "a", ")", " ", "=", " ", "1", ";">>
  /\ result = "Compile"
  /\ Len(errs) = 1
  /\ errs[1].at = <<" at '">> \o <<"=">> \o <<"'">>

RECURSIVE OffsetsSteps(_, _, _)
\* The offsets of at most k instructions of c from offset on, and the offset
\* after them (the end of the code after an instruction that cannot be
\* decoded).
OffsetsSteps(c, offset, k) ==
  IF k = 0 \/ offset >= Len(c.code) THEN [offs |-> {}, next |-> offset]
  ELSE IF disassemble_instruction(c, offset, FALSE).panic
  THEN [offs |-> {offset}, next |-> Len(c.code)]
  ELSE LET r == OffsetsSteps(c, disassemble_instruction(c, offset, FALSE).next, k - 1)
       IN [offs |-> r.offs \cup {offset}, next |-> r.next]

RECURSIVE InstructionOffsets(_, _)
\* The offsets at which the instructions of c begin, from offset on.
InstructionOffsets(c, offset) ==
  IF offset >= Len(c.code) THEN {}
  ELSE LET b == OffsetsSteps(c, offset, 16) IN
       b.offs \cup InstructionOffsets(c, b.next)

\* The offsets of the instructions of c whose operand is a constant index.
ConstantInstructions(c) ==
  {o \in InstructionOffsets(c, 0) :
     At(c.code, o) \in {OP_CONSTANT, OP_GET_GLOBAL, OP_DEFINE_GLOBAL, OP_SET_GLOBAL}}

\* The state in which run_file has just compiled the text.
Compiled(text) == calls > 0 /\ executed = 0 /\ source = text

\* What compile returned in this state, as the state records it.
CompileResult ==
  [chunk |-> chunk, ok |-> compile_ok, diags |-> errs, locals |-> locals,
   scope_depth |-> scope_depth]

\* The same fields of a result of compile.
Recorded(r) ==
  [chunk |-> r.chunk, ok |-> r.ok /\ ~r.panic, diags |-> r.diags,
   locals |-> r.locals, scope_depth |-> r.scope_depth]

\* C18: when one compile needs a 256th constant-pool entry (for a number
\* literal, a string literal or the name of a global), the addition fails
\* with "Too many constants in one chunk." and compile returns failure; the
\* pool never holds more than 256 entries, and every constant operand in the
\* code is the index of an entry of the pool, no index having wrapped onto
\* that of another entry.  (For the short run the state is also the one
\* compile reaches from the start of the text.)
C18_ConstantPoolLimit ==
  /\ Len(chunk.constants) <= 256
  /\ \A n \in ConstantCounts : \A q \in ConstantRests :
       Compiled(LongText(n) \o q[1]) =>
         /\ n + q[2] >= 256 =>
              /\ ~compile_ok
              /\ result = "Compile"
              /\ errs # <<>>
              /\ \A i \in 1..Len(errs) :
                   errs[i].message = "Too many constants in one chunk."
         /\ \A ci \in {ConstantInstructions(chunk)} :
              /\ \A o \in ci : /\ o + 1 < Len(chunk.code)
                              /\ At(chunk.code, o + 1) < Len(chunk.constants)
              /\ Cardinality({At(chunk.code, o + 1) : o \in ci}) = Cardinality(ci)
         /\ n = ShortRun =>
              CompileResult = Recorded(compile(source, ChunkNew, checked))

\* `var g = 2;` after 254 statements `1;`: the name g takes the 255th entry
\* and the literal 2 is refused.
C18_256thConstantRefused ==
  /\ Compiled(LongText(254) \o <<"v", "a", "r", " ", "g", " ", "=", " ", "2", ";">>)
  /\ result = "Compile"
  /\ Len(errs) = 1
  /\ Len(chunk.constants) = 255
  /\ chunk.constants[255].tag = "Obj"
  /\ chunk.constants[255].s = <<"g">>

RECURSIVE OperandsAt(_, _)
\* The operands of the instructions of c at the offsets offs, in the order
\* of the code.
OperandsAt(c, offs) ==
  IF offs = {} THEN <<>>
  ELSE <<At(c.code, (CHOOSE m \in offs : \A o \in offs : m <= o) + 1)>>
       \o OperandsAt(c, offs \ {CHOOSE m \in offs : \A o \in offs : m <= o})

\* The slot operands of the local gets and sets of c, in the order of the
\* code.
LocalOperands(c) ==
  OperandsAt(c, {o \in InstructionOffsets(c, 0) :
                   At(c.code, o) \in {OP_GET_LOCAL, OP_SET_LOCAL}})

\* The slots the rest q names after a run of n locals.
ExpectedSlots(n, q) ==
  [i \in 1..Len(q.refs) |->
     IF q.refs[i][1] = "abs" THEN q.refs[i][2] ELSE n + q.refs[i][2]]

\* C19: declaring a 256th simultaneously live local in a chain of nested
\* blocks fails with "Exceeded maximum number of local variables." and
\* compile returns failure; the local list never holds more than 255
\* entries, and the slot operand of every local get and set is the position
\* of the named local in that list, so that a value stored in the 253rd
\* local is the one read back from it.  (For the short run the state is also
\* the one compile reaches from the start of the text.)
C19_LocalListLimit ==
  /\ Len(locals) <= 255
  /\ \A np \in LocalShapes : \A q \in LocalRests :
       Compiled(LocalsText(np[1], np[2]) \o q.text) =>
         /\ np[1] + q.live >= 256 =>
              /\ ~compile_ok
              /\ result = "Compile"
              /\ errs # <<>>
              /\ errs[1].message = "Exceeded maximum number of local variables."
         /\ (np[1] + q.live < 256 /\ np[1] > 252) =>
              /\ compile_ok
              /\ LocalOperands(chunk) = ExpectedSlots(np[1], q)
         /\ np[1] = ShortRun =>
              CompileResult = Recorded(compile(source, ChunkNew, checked))
  /\ \A np \in LocalShapes : \A q \in LocalRests :
       (/\ calls > 0
        /\ Finished
        /\ np[1] > 252
        /\ q.refs = <<<<"abs", 252>>, <<"abs", 252>>, <<"abs", 251>>>>
        /\ source = LocalsText(np[1], np[2]) \o q.text) =>
         /\ result = "Ok"
         /\ Len(out) = 2
         /\ out[1].tag = "Number" /\ out[1].x = F64(7, 1)
         /\ out[2].tag = "Nil"

\* `var x;` after 255 declarations in three nested blocks: the 256th local
\* is refused and the list stays at 255 entries.
C19_256thLocalRefused ==
  /\ Compiled(LocalsText(255, 100) \o <<" ", "v", "a", "r", " ", "x", ";", " ", "}", "}", "}">>)
  /\ result = "Compile"
  /\ Len(locals) = 255
  /\ scope_depth = 3

\* C20: at the return of every compile, also of one that has reported
\* errors and resynchronized, the local list holds no two locals with the
\* same name and the same declaration depth.
C20_NoSameDepthDuplicate ==
  \A i \in 1..Len(locals) : \A j \in 1..Len(locals) :
    (i # j /\ locals[i].name.lexeme = locals[j].name.lexeme) =>
      locals[i].depth # locals[j].depth

\* The 16-bit operand of the jump instruction at offset o, high byte first.
JumpOperand(c, o) == At(c.code, o + 1) * 256 + At(c.code, o + 2)

\* The offset a jump at o leads to: its operand is the distance from the
\* byte just past the operand.
JumpTarget(c, o) == o + 3 + JumpOperand(c, o)

RECURSIVE Reach(_, _)
\* The offsets of the instructions some path from from executes: a
\* jump-if-falsey goes on either way, a jump leads to its target (forward
\* jumps only).
Reach(c, from) ==
  IF from >= Len(c.code) THEN {}
  ELSE {from} \cup
       CASE At(c.code, from) = OP_RETURN -> {}
         [] At(c.code, from) = OP_JUMP ->
              IF JumpTarget(c, from) > from THEN Reach(c, JumpTarget(c, from)) ELSE {}
         [] At(c.code, from) = OP_JUMP_IF_FALSE ->
              Reach(c, from + 3)
              \cup (IF JumpTarget(c, from) > from THEN Reach(c, JumpTarget(c, from)) ELSE {})
         [] OTHER -> Reach(c, disassemble_instruction(c, from, FALSE).next)

\* The number of code bytes compile emits for a statement.
CodeLen(text) == Len(compile(text, ChunkNew, FALSE).chunk.code) - 1

\* The if statement whose jump-if-falsey is at offset a of c is laid out as
\* the claim says: a discard follows the jump-if-falsey; its target t is a
\* discard that the unconditional jump at t - 3 precedes; that jump leads
\* forward past t; the path that does not take the jump-if-falsey never
\* executes the discard at t, and the path that takes it executes the
\* discard at t and never the one at a + 3.
IfLayout(c, offs, a) ==
  /\ At(c.code, a + 3) = OP_POP
  /\ JumpTarget(c, a) \in offs
  /\ At(c.code, JumpTarget(c, a)) = OP_POP
  /\ JumpTarget(c, a) - 3 \in offs
  /\ At(c.code, JumpTarget(c, a) - 3) = OP_JUMP
  /\ JumpTarget(c, JumpTarget(c, a) - 3) \in offs
  /\ JumpTarget(c, JumpTarget(c, a) - 3) > JumpTarget(c, a)
  /\ JumpTarget(c, a) \notin Reach(c, a + 3)
  /\ a + 3 \notin Reach(c, JumpTarget(c, a))

\* C21: in the code of every if statement, with or without else, the
\* operand of the jump-if-falsey leads to the second discard and the operand
\* of the unconditional jump to the first instruction after the else-branch,
\* so that the path of a truthy condition and the path of a falsey one each
\* execute exactly one of the two discards.
C21_IfJumpTargets ==
  /\ \A q \in IfShapes :
       Compiled(IfText(q)) =>
         /\ errs = <<>>
         /\ \A a \in {CodeLen(q[1] \o <<";">>) - 1} :
              /\ At(chunk.code, a) = OP_JUMP_IF_FALSE
              /\ JumpTarget(chunk, a) = a + 4 + CodeLen(q[2]) + 3
              /\ JumpTarget(chunk, JumpTarget(chunk, a) - 3)
                   = JumpTarget(chunk, a) + 1
                     + (IF q[3] = <<>> THEN 0 ELSE CodeLen(q[3]))
              /\ JumpTarget(chunk, JumpTarget(chunk, a) - 3) = Len(chunk.code) - 1
  /\ (calls > 0 /\ executed = 0 /\ errs = <<>>) =>
       \A offs \in {InstructionOffsets(chunk, 0)} :
         \A a \in offs :
           At(chunk.code, a) = OP_JUMP_IF_FALSE => IfLayout(chunk, offs, a)

\* `if (a) if (b) print 1; else print 2; else print 3;` has been compiled:
\* two if statements, one inside the then-branch of the other.
C21_NestedIfCompiled ==
  /\ calls > 0
  /\ executed = 0
  /\ errs = <<>>
  /\ Cardinality({a \in InstructionOffsets(chunk, 0) :
                    At(chunk.code, a) = OP_JUMP_IF_FALSE}) = 2
  /\ At(chunk.code, 2) = OP_JUMP_IF_FALSE
  /\ At(chunk.code, 8) = OP_JUMP_IF_FALSE
  /\ JumpTarget(chunk, 2) = 25
  /\ At(chunk.code, 25) = OP_POP


\* C22: patch_jump(position) computes the distance from the byte just past
\* the two placeholder bytes to the end of the code.  A distance of at most
\* 65535 is written with its high byte at position and its low byte at
\* position + 1, and no other byte, no length, no constant and no line
\* entry changes; a larger distance fails with "Too much code to jump
\* over." and leaves the chunk as it was.
C22_PatchJump ==
  [][(calls' = calls + 1 /\ called'.name = "patch_jump") =>
       \A position \in {called'.arg} :
       \A distance \in {Len(chunk.code) - (position + 2)} :
         /\ position \in pending
         /\ distance >= 0
         /\ IF distance <= 65535
            THEN /\ called'.ok
                 /\ At(chunk'.code, position) = distance \div 256
                 /\ At(chunk'.code, position + 1) = distance % 256
                 /\ Len(chunk'.code) = Len(chunk.code)
                 /\ \A o \in (0..(Len(chunk.code) - 1)) \ {position, position + 1} :
                      At(chunk'.code, o) = At(chunk.code, o)
                 /\ chunk'.constants = chunk.constants
                 /\ chunk'.lines = chunk.lines
            ELSE /\ ~called'.ok
                 /\ called'.message = "Too much code to jump over."
                 /\ chunk' = chunk]_vars

\* A patch_jump over 65536 bytes has failed.
C22_JumpTooLong ==
  /\ called.name = "patch_jump"
  /\ ~called.ok
  /\ Len(chunk.code) - (called.arg + 2) = 65536

RECURSIVE WalkEnd(_, _, _)
\* The loop of Chunk::disassemble from offset on: the offset at which it
\* stops, and whether it stops there by a panic.
WalkEnd(c, offset, overflow_checks) ==
  IF offset < Len(c.code)
  THEN LET b == DisassembleSteps(c, offset, overflow_checks, 16) IN
       IF b.panic THEN b ELSE WalkEnd(c, b.next, overflow_checks)
  ELSE [next |-> offset, panic |-> FALSE]

\* C23: for every successfully compiled chunk the walk of disassemble, from
\* offset 0 along the offsets the decoded instructions return, visits only
\* opcodes the compiler emitted (the last one the final OP_RETURN), reads
\* its operand bytes inside the code and stops at exactly the code length.
C23_DisassemblyWalk ==
  (calls > 0 /\ executed = 0 /\ errs = <<>>) =>
    \A w \in {WalkEnd(chunk, 0, checked)} :
      /\ ~w.panic
      /\ w.next = Len(chunk.code)
      /\ \A o \in InstructionOffsets(chunk, 0) :
           /\ At(chunk.code, o) \in OP_CONSTANT..OP_RETURN
           /\ disassemble_instruction(chunk, o, FALSE).next <= Len(chunk.code)
      /\ Len(chunk.code) - 1 \in InstructionOffsets(chunk, 0)
      /\ At(chunk.code, Len(chunk.code) - 1) = OP_RETURN

\* C24: after any sequence of emit, emit_constant, emit_jump and patch_jump
\* calls on a chunk, those that fail included, the line table is as long as
\* the code.
C24_LinesMatchCode == Len(chunk.lines) = Len(chunk.code)

\* An emit_constant has failed on the full pool, after an emit_jump and the
\* patch_jump of its placeholder were appended to the code.
C24_AfterFailedCall ==
  /\ called.name = "emit_constant"
  /\ ~called.ok
  /\ pending = {}
  /\ Len(chunk.code) = 3 * MAX_CONSTANTS + 3
  /\ At(chunk.code, Len(chunk.code) - 3) = OP_JUMP
  /\ At(chunk.code, Len(chunk.code) - 2) = 0
  /\ At(chunk.code, Len(chunk.code) - 1) = 0

\* C25: after compile has reported an error it goes on with the rest of the
\* source, so the error of a later statement is reported in the same pass,
\* wherever the first error is, a lexical error at the first token
\* included: the last diagnostic is the one the later statement gives
\* alone, on its line.
C25_ErrorsInOnePass ==
  /\ \A s \in FaultySeconds : Compiled(s[1]) =>
       /\ Len(errs) = 1
       /\ errs[1].line = 1
       /\ errs[1].message = s[2]
       /\ errs[1].at[2] = s[3]
  /\ \A f \in FaultyFirsts : \A s \in FaultySeconds : Compiled(TwoFaults(f, s)) =>
       /\ ~compile_ok
       /\ Len(errs) >= 2
       /\ errs[1].line = 1
       /\ Last(errs).line = 2
       /\ Last(errs).message = s[2]
       /\ Last(errs).at # <<>>
       /\ Last(errs).at[2] = s[3]

\* One character of text read in mode "code", "string" or "comment": the
\* index and the mode to go on with, the mode "fault" at a character outside
\* strings and comments that begins no token and is no whitespace.
LexNext(text, i, mode) ==
  IF mode = "comment"
  THEN <<i + 1, IF text[i] = "\n" THEN "code" ELSE "comment">>
  ELSE IF mode = "string"
  THEN <<i + 1, IF text[i] = "\"" THEN "code" ELSE "string">>
  ELSE IF text[i] = "\"" THEN <<i + 1, "string">>
  ELSE IF text[i] = "/" /\ i < Len(text) /\ text[i + 1] = "/"
  THEN <<i + 2, "comment">>
  ELSE IF \/ text[i] \in {" ", "\r", "\t", "\n"}
          \/ is_alpha(text[i]) \/ is_digit(text[i])
          \/ SingleCharTag(text[i]) # ""
  THEN <<i + 1, "code">>
  ELSE <<i, "fault">>

RECURSIVE LexSteps(_, _, _)
\* At most k characters of text read from the index and in the mode of at.
LexSteps(text, at, k) ==
  IF k = 0 \/ at[1] > Len(text) \/ at[2] = "fault" THEN at
  ELSE LexSteps(text, LexNext(text, at[1], at[2]), k - 1)

RECURSIVE LexFault(_, _, _)
\* Whether text, read from its i-th character on in mode "code", "string"
\* or "comment", has a character outside strings and comments that begins
\* no token and is no whitespace, or ends inside a string.  The characters
\* are read sixteen at a time.
LexFault(text, i, mode) ==
  IF mode = "fault" THEN TRUE
  ELSE IF i > Len(text) THEN mode = "string"
  ELSE LexFault(text, LexSteps(text, <<i, mode>>, 16)[1],
                LexSteps(text, <<i, mode>>, 16)[2])

\* C26: a source with an unterminated string or an unrecognized character
\* outside a comment never compiles successfully: the call ends with a
\* compile error and a diagnostic, and nothing of it is executed.
C26_LexicalFaultFailsCompile ==
  (calls > 0 /\ LexFault(source, 1, "code")) =>
    /\ ~compile_ok
    /\ result = "Compile"
    /\ phase = "idle"
    /\ errs # <<>>
    /\ executed = 0
    /\ out = <<>>
    /\ globals = globals0

\* An unterminated string or an unrecognized character came after a
\* statement that compile had compiled, and is the only error reported.
C26_FaultAfterStatement ==
  /\ calls > 0
  /\ LexFault(source, 1, "code")
  /\ Len(chunk.code) > 1
  /\ Len(errs) = 1
  /\ errs[1].message = "error advancing"
  /\ result = "Compile"

\* C27: repeated next_token calls reach the end-of-input token after finitely
\* many calls: a call that returns another token consumes at least one
\* character, so a call beyond the length of the text returns end-of-input;
\* and after end-of-input every call returns end-of-input again and leaves
\* the scanner as it is.
C27_NextTokenTerminates ==
  [][tokens' # tokens =>
       /\ tokens' = Append(tokens, Last(tokens'))
       /\ Last(tokens').tag # "Eof" =>
            /\ scanner'.pos > scanner.pos
            /\ scanner'.pos <= Len(source) + 1
       /\ Len(tokens') > Len(source) => Last(tokens').tag = "Eof"
       /\ (tokens # <<>> /\ Last(tokens).tag = "Eof") =>
            /\ Last(tokens').tag = "Eof"
            /\ scanner' = scanner]_vars

\* End-of-input has been returned three times in a row, after an error
\* token.
C27_EofRepeated ==
  /\ Len(tokens) > 3
  /\ \A i \in (Len(tokens) - 2)..Len(tokens) : tokens[i].tag = "Eof"
  /\ tokens[Len(tokens) - 3].tag = "Error"

\* The newline characters among the first n characters of text.
Newlines(text, n) == Cardinality({i \in 1..n : text[i] = "\n"})

\* C28: after the lexer has consumed any prefix of the source, its line
\* counter is 1 plus the number of newlines in that prefix, whatever
\* surrounds the newline, and the line of the token it has just returned is
\* that line, the one on which the token ends.
C28_LineCounter ==
  /\ scanner.line = 1 + Newlines(source, scanner.pos - 1)
  /\ tokens # <<>> => Last(tokens).line = 1 + Newlines(source, scanner.pos - 1)

\* The instructions that copy a value: OP_CONSTANT, OP_GET_LOCAL,
\* OP_SET_LOCAL, OP_GET_GLOBAL, OP_DEFINE_GLOBAL and OP_SET_GLOBAL.
CopyOps ==
  {OP_CONSTANT, OP_GET_LOCAL, OP_SET_LOCAL, OP_GET_GLOBAL, OP_DEFINE_GLOBAL,
   OP_SET_GLOBAL}

\* C30: copying a string value never creates a heap object, the copy shares
\* the object of the original: no instruction that copies a value
\* allocates, and the only instruction that allocates is OP_ADD on two
\* strings.
C30_CopySharesObject ==
  [][(phase = "running" /\ executed' = executed + 1) =>
       /\ At(chunk.code, ip) \in CopyOps => allocated' = allocated
       /\ allocated' > allocated => At(chunk.code, ip) = OP_ADD]_vars

\* The instruction about to be dispatched is a define or a set of the
\* global called name.
Rebinds(name) ==
  /\ phase = "running"
  /\ At(chunk.code, ip) \in {OP_DEFINE_GLOBAL, OP_SET_GLOBAL}
  /\ At(chunk.constants, At(chunk.code, ip + 1)).s = name

\* C29: across the interpret calls on one global table a binding stays
\* visible with its value to every later call until it is rebound, whatever
\* the outcome of the calls in between: no step removes a name, a name gets
\* a new value only by a define or set of that name and enters the table
\* only by a define, the beginning of a call leaves the table as the call
\* before left it, and a get pushes the value the table holds.
C29_GlobalsPersist ==
  [][/\ \A name \in DOMAIN globals :
          /\ name \in DOMAIN globals'
          /\ globals'[name] # globals[name] => Rebinds(name)
     /\ \A name \in (DOMAIN globals') \ (DOMAIN globals) :
          Rebinds(name) /\ At(chunk.code, ip) = OP_DEFINE_GLOBAL
     /\ calls' = calls + 1 => (globals' = globals /\ globals0' = globals)
     /\ (phase = "running" /\ executed' = executed + 1 /\ phase' = "running"
         /\ At(chunk.code, ip) = OP_GET_GLOBAL) =>
          /\ At(chunk.constants, At(chunk.code, ip + 1)).s \in DOMAIN globals
          /\ Last(stack') = globals[At(chunk.constants, At(chunk.code, ip + 1)).s]]_vars

\* The third call has printed the value of b, which a call that ended in a
\* Runtime error had bound.
C29_SeenAfterRuntimeError ==
  /\ calls = 3
  /\ result = "Ok"
  /\ Len(source) = 8 /\ source[7] = "b"
  /\ Len(out) = 1 /\ out[1].tag = "Obj" /\ out[1].s = <<"s">>
  /\ DOMAIN globals = {<<"b">>}

RECURSIVE BlockEntry(_, _)
\* The parser on its way to the block whose `{` is the character before
\* position target: the declarations before it are compiled, the blocks
\* that enclose it are entered as statement enters them.
BlockEntry(p, target) ==
  IF Failed(p) \/ check(p, "Eof") THEN p
  ELSE IF check(p, "LeftBrace") /\ p.scanner.pos = target THEN p
  ELSE IF check(p, "LeftBrace")
  THEN BlockEntry(begin_scope(matches(p, "LeftBrace")), target)
  ELSE BlockEntry(declaration(p), target)

\* The parser when statement has compiled the body of the block that p
\* stands at, before end_scope.
BlockBody(p) == block(begin_scope(matches(p, "LeftBrace")))

\* C31: when a block is compiled without error, leaving it emits exactly one
\* discard for each local declared directly in the block, removes exactly
\* those locals from the list and restores the scope depth and the length
\* of the list to their values at the entry of the block.
C31_BlockLeavesLocalsAsFound ==
  \A q \in BlockShapes : Compiled(BlockText(q)) =>
    /\ errs = <<>>
    /\ locals = <<>>
    /\ scope_depth = 0
    /\ \A p \in {BlockEntry(advance(ParserNew(source, ChunkNew)), Len(q[1]) + 2)} :
       \A b \in {BlockBody(p)} :
       \A r \in {statement(p)} :
         /\ ~Failed(p) /\ ~Failed(b) /\ ~Failed(r)
         /\ check(p, "LeftBrace")
         /\ b.scope_depth = p.scope_depth + 1
         /\ Len(b.locals) = Len(p.locals) + q[3]
         /\ \A i \in 1..Len(b.locals) :
              IF i <= Len(p.locals) THEN b.locals[i] = p.locals[i]
              ELSE b.locals[i].depth = b.scope_depth
         /\ r.scope_depth = p.scope_depth
         /\ Len(r.locals) = Len(p.locals)
         /\ r.locals = p.locals
         /\ Len(r.chunk.code) = Len(b.chunk.code) + q[3]
         /\ \A o \in 0..(Len(r.chunk.code) - 1) :
              At(r.chunk.code, o) = (IF o < Len(b.chunk.code) THEN At(b.chunk.code, o)
                                     ELSE OP_POP)
         /\ r.chunk.constants = b.chunk.constants
         /\ Len(r.chunk.code) <= Len(chunk.code)
         /\ \A o \in 0..(Len(r.chunk.code) - 1) : At(chunk.code, o) = At(r.chunk.code, o)

\* A block with three locals of its own, inside a block with one, was
\* compiled without error.
C31_ThreeLocalsDiscarded ==
  /\ calls > 0 /\ executed = 0 /\ errs = <<>>
  /\ Len(source) = 59
  /\ \E o \in 0..(Len(chunk.code) - 3) :
       /\ At(chunk.code, o) = OP_POP
       /\ At(chunk.code, o + 1) = OP_POP
       /\ At(chunk.code, o + 2) = OP_POP
       /\ At(chunk.code, o + 3) = OP_GET_LOCAL

RECURSIVE StatementBounds(_)
\* The statement boundaries of the program the parser p is compiling, as
\* pairs <<code offset, number of locals>>: p stands where the loop of
\* compile or of block is about to call declaration, or at the `}` that ends
\* a block.  A block is entered as statement enters it and left as statement
\* leaves it; an if statement is passed as one statement.
StatementBounds(p) ==
  {<<Len(p.chunk.code), Len(p.locals)>>} \cup
  (IF Failed(p) \/ check(p, "Eof") THEN {}
   ELSE IF check(p, "RightBrace") /\ p.scope_depth > 0
   THEN StatementBounds(end_scope(consume(p, "RightBrace", "Expected '}' after block.")))
   ELSE IF check(p, "LeftBrace")
   THEN StatementBounds(begin_scope(matches(p, "LeftBrace")))
   ELSE StatementBounds(declaration(p)))

\* The boundary of B at or before the offset i, and the number of locals that
\* are live through the whole statement the offset i belongs to.
BoundBefore(B, i) ==
  CHOOSE x \in B : x[1] <= i /\ \A y \in B : y[1] <= i => y[1] <= x[1]

LiveThrough(B, i) ==
  LET after == {x \in B : x[1] > i}
      next == CHOOSE x \in after : \A y \in after : x[1] <= y[1]
  IN IF after = {} \/ BoundBefore(B, i)[2] <= next[2]
     THEN BoundBefore(B, i)[2] ELSE next[2]

\* The instructions followed by one operand byte, and those whose operand is
\* an index into the constants.
ConstantOps == {OP_CONSTANT, OP_GET_GLOBAL, OP_DEFINE_GLOBAL, OP_SET_GLOBAL}

LocalOps == {OP_GET_LOCAL, OP_SET_LOCAL}

\* C32: while a compiled chunk runs, the stack depth at every statement
\* boundary is the number of locals live there; the slot of every local get
\* and set is the slot of a live local and below the stack depth; the slots
\* of the live locals are only changed by a set of that slot, which stores
\* the top; no instruction underflows the stack or reads a code byte, a
\* constant or a stack slot out of range.
C32_StackHoldsLocals ==
  (phase = "running" /\ compile_ok) =>
    \A B \in {StatementBounds(advance(ParserNew(source, ChunkNew)))} :
    \A r \in {RunLoopBody(chunk, ip, stack, globals, checked)} :
    \A n \in {LiveThrough(B, ip)} :
      /\ \A x, y \in B : x[1] = y[1] => x[2] = y[2]
      /\ <<0, 0>> \in B /\ <<Len(chunk.code) - 1, 0>> \in B
      /\ \A x \in B : x[1] = ip => Len(stack) = x[2]
      /\ Len(stack) >= n
      /\ ip < Len(chunk.code)
      /\ At(chunk.code, ip) \in ConstantOps \cup LocalOps =>
           ip + 1 < Len(chunk.code)
      /\ At(chunk.code, ip) \in ConstantOps =>
           At(chunk.code, ip + 1) < Len(chunk.constants)
      /\ At(chunk.code, ip) \in LocalOps =>
           /\ At(chunk.code, ip + 1) < Len(stack)
           /\ At(chunk.code, ip + 1) < BoundBefore(B, ip)[2]
      /\ r.status = "Panic" => disassemble_instruction(chunk, ip, checked).panic
      /\ r.err # <<StackUnderflow>>
      /\ r.status = "running" =>
           /\ Len(r.stack) >= n
           /\ \A k \in 1..n :
                r.stack[k] =
                  IF At(chunk.code, ip) = OP_SET_LOCAL /\ At(chunk.code, ip + 1) = k - 1
                  THEN stack[Len(stack)] ELSE stack[k]

\* The run of `{ var a = 1; var b = 2; a = b; b = a + b; print a; print b; }`
\* is at `print a;`: both slots have been assigned, slot 0 holds 2 and slot 1
\* holds 4.
C32_BothSlotsAssigned ==
  /\ phase = "running" /\ compile_ok
  /\ Len(source) = 61
  /\ lastop = OP_POP
  /\ Len(stack) = 2
  /\ stack[1].tag = "Number" /\ stack[1].x.num = 2 /\ stack[1].x.den = 1
  /\ stack[2].tag = "Number" /\ stack[2].x.num = 4 /\ stack[2].x.den = 1
  /\ At(chunk.code, ip) = OP_GET_LOCAL /\ At(chunk.code, ip + 1) = 0
  /\ At(chunk.code, ip + 2) = OP_PRINT

\* A pass of the loop of run that ends the run.
RunEnds == phase = "running" /\ phase' # "running"

\* C33: every run of a compiled chunk terminates.  The last byte of the
\* chunk is OP_RETURN; while the run goes on nothing has been reported, the
\* instruction pointer is inside the code and each pass moves it forward; the
\* run ends at an OP_RETURN with Ok and no message, or at the first fault
\* with its one message and the Runtime error; and a run that has begun does
\* end in one of these two ways.
C33_RunTerminates ==
  /\ []((phase = "running" /\ compile_ok) =>
          /\ Last(chunk.code) = OP_RETURN
          /\ ip < Len(chunk.code)
          /\ errs = <<>>)
  /\ [][(phase = "running" /\ compile_ok) =>
          /\ ip' > ip
          /\ ip' <= Len(chunk.code)
          /\ executed' = executed + 1
          /\ RunEnds =>
               \/ /\ result' = "Ok" /\ phase' = "idle"
                  /\ At(chunk.code, ip) = OP_RETURN /\ errs' = <<>>
               \/ /\ result' = "Runtime" /\ phase' = "idle"
                  /\ At(chunk.code, ip) # OP_RETURN /\ Len(errs') = 1]_vars
  /\ (phase = "running" /\ compile_ok)
       ~> (phase = "idle" /\ result \in {"Ok", "Runtime"})

\* A run has ended at a fault before the end of the code: several
\* instructions were executed, one message was written, and the bytes after
\* the faulting instruction were never reached.
C33_EndedAtFault ==
  /\ phase = "idle" /\ compile_ok /\ result = "Runtime"
  /\ executed >= 3
  /\ Len(errs) = 1
  /\ ip + 1 < Len(chunk.code)
  /\ lastop = OP_NEGATE

\* C34: a local of the same name in an enclosing block does not make a
\* declaration an error: `{ var a = 1; { var a = 2; print a; } print a; }`
\* and the same with one more block between the two declarations compile
\* without a diagnostic, and the first prints 2 and then 1.
C34_ShadowsEnclosingLocal ==
  /\ (calls > 0 /\ source \in {SrcShadowInner, SrcShadowTwoOut}) =>
       /\ compile_ok
       /\ errs = <<>>
  /\ (calls > 0 /\ source = SrcShadowInner /\ phase = "idle") =>
       /\ result = "Ok"
       /\ Len(out) = 2
       /\ out[1].tag = "Number" /\ out[1].x.num = 2 /\ out[1].x.den = 1
       /\ out[2].tag = "Number" /\ out[2].x.num = 1 /\ out[2].x.den = 1

RECURSIVE TopLevelStarts(_)
RECURSIVE TopLevelMatched(_)
RECURSIVE TopLevelDeclared(_)

\* The scope depth and the number of locals each time the loop of compile
\* calls declaration, from the parser p at the head of the loop on.
TopLevelStarts(p) == TopLevelMatched(matches(p, "Eof"))

TopLevelMatched(m) ==
  IF Failed(m) THEN TopLevelStarts([m EXCEPT !.err = <<>>])
  ELSE IF m.ret THEN {}
  ELSE {<<m.scope_depth, Len(m.locals)>>} \cup TopLevelDeclared(declaration(m))

TopLevelDeclared(d) ==
  IF Failed(d) THEN TopLevelStarts(synchronize([d EXCEPT !.err = <<>>]))
  ELSE TopLevelStarts(d)

\* C35: each time the loop of compile starts a declaration the scope depth
\* is 0 and the local list is empty, whatever errors were reported before;
\* so is the parser when compile returns, and the second of two top-level
\* declarations of x after a faulty block is no error.
C35_TopLevelIsGlobalScope ==
  (calls > 0 /\ executed = 0) =>
    /\ \A x \in TopLevelStarts([advance(ParserNew(source, ChunkNew)) EXCEPT !.err = <<>>]) :
         x = <<0, 0>>
    /\ scope_depth = 0
    /\ locals = <<>>
    /\ source = SrcFaultyBlockThenVars =>
         \A i \in 1..Len(errs) :
           errs[i].message # "Variable with this name already declared in this scope."

RECURSIVE Significant(_, _, _, _)
\* How many of the characters i..n of text belong to a token or are
\* unrecognized, text[i] being read in mode "code", "string" or "comment":
\* all but the whitespace outside strings and the comments.
Significant(text, i, n, mode) ==
  IF i > n THEN 0
  ELSE IF mode = "comment"
  THEN Significant(text, i + 1, n, IF text[i] = "\n" THEN "code" ELSE "comment")
  ELSE IF mode = "string"
  THEN 1 + Significant(text, i + 1, n, IF text[i] = "\"" THEN "code" ELSE "string")
  ELSE IF text[i] = "\"" THEN 1 + Significant(text, i + 1, n, "string")
  ELSE IF text[i] = "/" /\ i < Len(text) /\ text[i + 1] = "/"
  THEN Significant(text, i + 1, n, "comment")
  ELSE IF text[i] \in {" ", "\r", "\t", "\n"}
  THEN Significant(text, i + 1, n, "code")
  ELSE 1 + Significant(text, i + 1, n, "code")

\* The characters of the source a returned token stands for: its lexeme, a
\* string's two delimiters, or the one character an error token reports.
TokenChars(tok) ==
  CASE tok.tag = "Eof" -> 0
    [] tok.tag = "Error" -> 1
    [] tok.tag = "StringLiteral" -> Len(tok.lexeme) + 2
    [] OTHER -> Len(tok.lexeme)

RECURSIVE TokensChars(_, _)
\* The sum of TokenChars over the first k of the tokens toks.
TokensChars(toks, k) ==
  IF k = 0 THEN 0 ELSE TokensChars(toks, k - 1) + TokenChars(toks[k])

Unterminated(tok) ==
  tok.tag = "Error" /\ tok.lexeme = <<"unterminated string">>

\* C36: the lexer drops no character: as long as no string was left
\* unterminated, the characters it has passed that are neither whitespace
\* nor comment are as many as the tokens returned so far stand for, and
\* when it has just reported an unrecognized character it stands directly
\* after that character, so that the next one is still to be scanned.
C36_NoCharacterDropped ==
  (\A i \in 1..Len(tokens) : ~Unterminated(tokens[i])) =>
    /\ Significant(source, 1, scanner.pos - 1, "code") = TokensChars(tokens, Len(tokens))
    /\ (tokens # <<>> /\ Last(tokens).tag = "Error") =>
         source[scanner.pos - 1] = Last(tokens).lexeme[2]

\* The offsets of the jump instructions of the chunk c.
JumpOffsets(c) ==
  {o \in InstructionOffsets(c, 0) : At(c.code, o) \in {OP_JUMP, OP_JUMP_IF_FALSE}}

\* C37: for every jump of a compiled chunk the target the disassembler
\* computes, as disassemble_instruction calls jump_instruction, is the
\* offset after the operand plus the encoded distance, lies inside 0..code
\* length and is computed without underflow; neither the disassembly in
\* compile nor the one before each instruction of a run aborts the call.
C37_JumpTargetComputed ==
  (calls > 0 /\ errs = <<>>) =>
    /\ result # "Panic"
    /\ \A o \in JumpOffsets(chunk) :
       \A j \in {jump_instruction(chunk, 1, o, checked)} :
         /\ ~j.panic
         /\ ~j.wrapped
         /\ j.target = o + 3 + At(chunk.code, o + 1) * 256 + At(chunk.code, o + 2)
         /\ j.target \in 0..Len(chunk.code)
====
